---- MODULE Spec2Model ----
(***************************************************************************)
(* Model of the SQL generators of includes/helpers (incremental, snapshot  *)
(* and view patterns, schema manager, merge builder, configuration         *)
(* validator, factory) and of the execution of the emitted incremental     *)
(* program against a warehouse holding a target and a staging table.       *)
(*                                                                         *)
(* SQL text is modelled as a sequence of statement records; strings that   *)
(* the code inspects character by character (partition expressions) are    *)
(* sequences of one-character strings.  NULL is the value 0 in table cells *)
(* and the string "NULL" in script variables.                              *)
(***************************************************************************)
EXTENDS Integers, Sequences, FiniteSets, TLC

VARIABLES
    config,      \* the model's factoryConfig (incremental, not full refresh)
    tables,      \* warehouse: table name -> [exists, cols, rows]
    script,      \* the emitted program being executed (preSQL, query, postSQL)
    pc,          \* index of the next statement of script, 0 between runs
    vars,        \* script variables: name -> value ("NULL" when unassigned)
    declared,    \* names declared by DECLARE in this run
    executed,    \* statements executed in this run, in order (op, table)
    probe,       \* what the INFORMATION_SCHEMA probe of this run returned
    before,      \* target table as it was when the run started
    runs,        \* number of runs started
    gen,         \* generator harness: inputs and outputs of the pure generators
    clock,       \* milliseconds since the epoch, as the generators read it
    factory,     \* factory state: currentModelContext, modelContexts, results
    failure      \* the run that was cut short: its number, target before, query result

runVars == <<config, tables, script, pc, vars, declared, executed, probe, before, runs,
             failure>>
vars_all == <<config, tables, script, pc, vars, declared, executed, probe, before, runs,
              gen, clock, factory, failure>>

----------------------------------------------------------------------------
(* Bounds of the model *)

MaxRuns == 2
MaxRows == 2

NULL == "NULL"

(* undefined is <<>>; a number n is <<n>>. *)
Undefined == <<>>

----------------------------------------------------------------------------
(* Strings as character sequences *)

RECURSIVE Str(_)
Str(cs) == IF cs = <<>> THEN "" ELSE Head(cs) \o Str(Tail(cs))

RECURSIVE JoinWith(_, _)
JoinWith(ss, sep) ==
    IF ss = <<>> THEN ""
    ELSE IF Len(ss) = 1 THEN ss[1]
    ELSE ss[1] \o sep \o JoinWith(Tail(ss), sep)

SeqToSet(s) == {s[i] : i \in DOMAIN s}

(* Array.prototype.join over pieces of text kept as token lists: the       *)
(* separator stands between consecutive pieces only.                       *)
RECURSIVE JoinTokens(_, _)
JoinTokens(pieces, sep) ==
    IF pieces = <<>> THEN <<>>
    ELSE IF Len(pieces) = 1 THEN pieces[1]
    ELSE pieces[1] \o <<sep>> \o JoinTokens(Tail(pieces), sep)

(* A statement of emitted SQL text: its kind, two names it mentions, a list  *)
(* of strings and a list of token tuples (the parts of the text that vary). *)
Stmt(op, a, b, x, y) == [op |-> op, a |-> a, b |-> b, x |-> x, y |-> y]

----------------------------------------------------------------------------
(* Values of script variables: every value is a tagged record, so that a   *)
(* variable of any SQL type (BOOL, STRING, ARRAY<STRING>) can be NULL.     *)

Val(k, v) == [k |-> k, v |-> v]
VNull == Val("NULL", <<>>)
IsNull(x) == x.k = "NULL"

(* JavaScript truthiness of the optional string-like options: "" / absent  *)
(* is falsy.                                                               *)
Truthy(s) == Len(s) > 0

----------------------------------------------------------------------------
(* SchemaManager *)

(* tableParts of a target given as its dot-separated parts; a missing part *)
(* reads as JavaScript's undefined.                                        *)
Part(parts, i) == IF i <= Len(parts) THEN parts[i] ELSE "undefined"

FullName(parts) == JoinWith(parts, ".")

getStagingTableName(targetTable, stagingDataset, includeTimestamp, now) ==
    LET project == Part(targetTable, 1)
        table == IF Len(targetTable) > 2 THEN targetTable[3]
                 ELSE IF Len(targetTable) > 1 THEN targetTable[2]
                 ELSE Part(targetTable, 1)
        stagingTable == Part(targetTable, 2) \o "_" \o table
        stamped == IF includeTimestamp
                   THEN stagingTable \o "_" \o ToString(now)
                   ELSE stagingTable
    IN <<project, stagingDataset, stamped>>

(* The text of the reconciler query: which catalogs it reads, the key      *)
(* list of its NOT IN filter and the join condition it returns verbatim.   *)
generateSchemaSQL(targetTable, stagingTable, uniqueKeys) ==
    LET project == Part(targetTable, 1)
        dataset == IF Len(targetTable) > 1 THEN targetTable[2] ELSE Part(targetTable, 1)
        table == IF Len(targetTable) > 2 THEN targetTable[3]
                 ELSE IF Len(targetTable) > 1 THEN targetTable[2]
                 ELSE Part(targetTable, 1)
    IN [target |-> FullName(<<project, dataset, table>>),
        staging |-> FullName(<<project, Part(stagingTable, 2), Part(stagingTable, 3)>>),
        keyColumns |-> uniqueKeys,
        joinCondition |-> JoinTokens([i \in DOMAIN uniqueKeys |->
                              <<"target.", uniqueKeys[i], " = ", "source.", uniqueKeys[i]>>],
                              " AND ")]

(* The text of the migration block: the table altered and the two catalogs *)
(* whose difference yields the ALTER statements.                           *)
generateSchemaMigrationSQL(targetTable, stagingTable) ==
    [alter |-> FullName(<<Part(targetTable, 1), Part(targetTable, 2), Part(targetTable, 3)>>),
     staging |-> FullName(<<Part(targetTable, 1), Part(stagingTable, 2), Part(stagingTable, 3)>>),
     target |-> FullName(<<Part(targetTable, 1), Part(targetTable, 2), Part(targetTable, 3)>>)]


----------------------------------------------------------------------------
(* MergeBuilder *)

LowerChars == <<"a","b","c","d","e","f","g","h","i","j","k","l","m",
                "n","o","p","q","r","s","t","u","v","w","x","y","z">>
UpperChars == <<"A","B","C","D","E","F","G","H","I","J","K","L","M",
                "N","O","P","Q","R","S","T","U","V","W","X","Y","Z">>
DigitChars == {"0","1","2","3","4","5","6","7","8","9"}

IsLetter(c) == c \in SeqToSet(LowerChars) \cup SeqToSet(UpperChars)
IsIdentStart(c) == IsLetter(c) \/ c = "_"
IsWordChar(c) == IsIdentStart(c) \/ c \in DigitChars

toUpperCase(cs) ==
    [i \in DOMAIN cs |->
        IF \E k \in DOMAIN LowerChars : LowerChars[k] = cs[i]
        THEN UpperChars[CHOOSE k \in DOMAIN LowerChars : LowerChars[k] = cs[i]]
        ELSE cs[i]]

TargetDot == <<"t","a","r","g","e","t",".">>

\* End of the match of the identifier pattern that starts at i (the word-character
\* run is greedy).
RECURSIVE MatchEnd(_, _)
MatchEnd(cs, j) ==
    IF j < Len(cs) /\ IsWordChar(cs[j + 1]) THEN MatchEnd(cs, j + 1) ELSE j

(* A callback that prefixes every match. *)
QualifyMatch_Always(match) == TargetDot \o match

(* The callback of partitionColumn.replace: an all-uppercase match is left  *)
(* alone, any other match is prefixed with target.                          *)
QualifyMatch(match) ==
    IF match = toUpperCase(match) THEN match ELSE TargetDot \o match

\* String.prototype.replace with the global identifier regex, from position i:
\* matches are found left to right and do not overlap.
RECURSIVE ReplaceIdentifiers(_, _)
ReplaceIdentifiers(cs, i) ==
    IF i > Len(cs) THEN <<>>
    ELSE IF IsIdentStart(cs[i])
         THEN LET j == MatchEnd(cs, i)
              IN QualifyMatch(SubSeq(cs, i, j)) \o ReplaceIdentifiers(cs, j + 1)
         ELSE <<cs[i]>> \o ReplaceIdentifiers(cs, i + 1)

isExpression(partitionColumn) ==
    \E i \in DOMAIN partitionColumn : partitionColumn[i] \in {"(", " "}

generatePartitionFilter(stagingTable, partitionColumn) ==
    [column |-> partitionColumn,
     targetExpression |-> IF isExpression(partitionColumn)
                          THEN ReplaceIdentifiers(partitionColumn, 1)
                          ELSE TargetDot \o partitionColumn,
     from |-> FullName(stagingTable)]

Slot == "%s"

(* A MERGE template with a third branch that deletes unmatched target rows. *)
buildMergeSQL_WithDelete(targetTable, stagingTable, partitionFilter) ==
    (IF partitionFilter.column # <<>>
     THEN <<"MERGE ", FullName(targetTable), " target USING (SELECT * FROM ", Slot,
            ") source ON ", Slot, " AND ", Str(partitionFilter.targetExpression),
            " IN (", Slot, ") WHEN MATCHED THEN UPDATE SET ", Slot>>
     ELSE <<"MERGE ", FullName(targetTable), " target USING (SELECT * FROM ", Slot,
            ") source ON ", Slot, " WHEN MATCHED THEN UPDATE SET ", Slot>>)
    \o <<" WHEN NOT MATCHED THEN INSERT (", Slot, ") VALUES (", Slot, ")",
         " WHEN NOT MATCHED BY SOURCE THEN DELETE">>

(* The MERGE template as a token list; Slot marks a %s of the text. *)
buildMergeSQL(targetTable, stagingTable, partitionFilter) ==
    IF partitionFilter.column # <<>>
    THEN <<"MERGE ", FullName(targetTable), " target USING (SELECT * FROM ", Slot,
           ") source ON ", Slot, " AND ", Str(partitionFilter.targetExpression),
           " IN (", Slot, ") WHEN MATCHED THEN UPDATE SET ", Slot,
           " WHEN NOT MATCHED THEN INSERT (", Slot, ") VALUES (", Slot, ")">>
    ELSE <<"MERGE ", FullName(targetTable), " target USING (SELECT * FROM ", Slot,
           ") source ON ", Slot, " WHEN MATCHED THEN UPDATE SET ", Slot,
           " WHEN NOT MATCHED THEN INSERT (", Slot, ") VALUES (", Slot, ")">>

NoPartitionFilter == [column |-> <<>>, targetExpression |-> <<>>, from |-> ""]

generateMergeOperation(targetTable, stagingTable, mergeConfig) ==
    LET partitionFilter == IF Truthy(mergeConfig.partitionBy)
                           THEN generatePartitionFilter(stagingTable, mergeConfig.partitionBy)
                           ELSE NoPartitionFilter
    IN [stagingTableName |-> FullName(stagingTable),
        schemaSQL |-> generateSchemaSQL(targetTable, stagingTable, mergeConfig.uniqueKeys),
        mergeSQL |-> buildMergeSQL(targetTable, stagingTable, partitionFilter),
        partitionFilter |-> partitionFilter,
        hasPartition |-> Truthy(mergeConfig.partitionBy)]

----------------------------------------------------------------------------
(* TableBuilder and TableOptions *)

(* PARTITION BY / CLUSTER BY clauses, as a list of clause texts. *)
buildTableOptions(cfg) ==
    (IF Truthy(cfg.partitionBy) THEN <<"PARTITION BY " \o Str(cfg.partitionBy)>> ELSE <<>>)
    \o (IF Len(cfg.clusterBy) > 0
        THEN <<"CLUSTER BY " \o JoinWith(cfg.clusterBy, ", ")>> ELSE <<>>)

(* OPTIONS(description=...): labels and partition expiration are not part  *)
(* of the configurations modelled.                                         *)
buildTableMetadata(cfg) ==
    IF Truthy(cfg.description)
    THEN <<"OPTIONS(description=" \o cfg.description \o ")">> ELSE <<>>

generateCreateTableSQL(targetTable, stagingTable, cfg) ==
    Stmt("CREATE_TABLE_IF_NOT_EXISTS", FullName(targetTable), FullName(stagingTable),
         buildTableOptions(cfg) \o buildTableMetadata(cfg), <<>>)


(* TableOptions.build *)
TableOptionsBuild(cfg) ==
    (IF Truthy(cfg.partitionBy) THEN <<"PARTITION BY " \o Str(cfg.partitionBy)>> ELSE <<>>)
    \o (IF Len(cfg.clusterBy) > 0
        THEN <<"CLUSTER BY " \o JoinWith(cfg.clusterBy, ", ")>> ELSE <<>>)

----------------------------------------------------------------------------
(* The clock the generators read *)

MsPerDay == 2

(* A date text that keeps the milliseconds. *)
isoDate_Millis(now) == "ms-" \o ToString(now)

(* new Date().toISOString().split('T')[0]: the UTC calendar date. *)
isoDate(now) == "day-" \o ToString(now \div MsPerDay)

(* An optional number is <<>> when absent and <<n>> when given; x || d.   *)
OrNumber(opt, d) == IF opt = <<>> \/ opt[1] = 0 THEN d ELSE opt[1]

----------------------------------------------------------------------------
(* IncrementalPattern *)

StagingExpirationHours == 12
DefaultBeginDaysBack == 2
DefaultEndDaysBack == 0

stagingTablePlaceholder == "__STAGING_TABLE__"

Declare(name, default) == Stmt("DECLARE", name, default, <<>>, <<>>)

dateSub(n) == "DATE_SUB(CURRENT_DATE(), INTERVAL " \o ToString(n) \o " DAY)"

buildVariableDeclarations(isFullRefresh, begin_daysBack, end_daysBack, partitionColumn) ==
    <<Declare("target_exists", "")>>
    \o (IF ~isFullRefresh
        THEN <<Declare("beginDate", dateSub(begin_daysBack)),
               Declare("limitDate", dateSub(end_daysBack))>>
        ELSE <<>>)
    \o <<Declare("update_set", ""), Declare("insert_cols", ""),
         Declare("insert_vals", ""), Declare("join_condition", ""),
         Declare("merge_sql", "")>>
    \o (IF Truthy(partitionColumn) THEN <<Declare("partition_values", "")>> ELSE <<>>)
    \o <<Declare("alter_statements", "")>>

parseTableName(targetTable) ==
    [project |-> Part(targetTable, 1), dataset |-> Part(targetTable, 2),
     table |-> Part(targetTable, 3)]

buildPreSQL(variableDeclarations, placeholder, targetTable, uniqueKeys, partitionColumn, isFullRefresh, cfg, now) ==
    LET t == parseTableName(targetTable)
        snapshotCreate == Stmt("SET_create_sql", "CREATE TABLE", FullName(targetTable),
                               TableOptionsBuild(cfg) \o buildTableMetadata(cfg), <<>>)
        stagingCreate == Stmt("SET_create_sql", "CREATE OR REPLACE TABLE", placeholder,
                              <<"expiration_timestamp=TIMESTAMP_ADD(CURRENT_TIMESTAMP(), INTERVAL "
                                \o ToString(StagingExpirationHours) \o " HOUR)">>, <<>>)
    IN <<Stmt("BANNER", IF isFullRefresh THEN "FULL REFRESH" ELSE "INCREMENTAL",
              isoDate(now),
              <<JoinWith(uniqueKeys, ", "),
                IF Truthy(partitionColumn) THEN Str(partitionColumn) ELSE "None">>, <<>>)>>
       \o variableDeclarations
       \o <<Declare("create_sql", ""),
            Stmt("SET_target_exists", t.project \o "." \o t.dataset, t.table, <<>>, <<>>),
            Stmt("IF_NOT_target_exists", "", "", <<>>, <<>>),
            snapshotCreate,
            Stmt("ELSE", "", "", <<>>, <<>>),
            stagingCreate,
            Stmt("END_IF", "", "", <<>>, <<>>),
            Stmt("EXECUTE_IMMEDIATE_create_sql", "", "", <<>>, <<>>)>>

SetPartitionValues(partitionColumn, from) ==
    Stmt("SET_partition_values", Str(partitionColumn), from, partitionColumn, <<>>)

(* BRANCH 1 of postSQL: nothing but the partition-value extraction. *)
snapshotBranch(partitionColumn, targetTable) ==
    IF Truthy(partitionColumn)
    THEN <<SetPartitionValues(partitionColumn, FullName(targetTable))>> ELSE <<>>

EnsureAndMigrate(createTableSQL, schemaMigrationSQL) ==
    <<createTableSQL,
      Stmt("SET_alter_statements", schemaMigrationSQL.alter, schemaMigrationSQL.staging,
           <<schemaMigrationSQL.target>>, <<>>),
      Stmt("EXECUTE_alter_statements", "", "", <<>>, <<>>)>>

ReconcileStmt(mergeOp) ==
    Stmt("EXECUTE_schemaSQL_INTO", mergeOp.schemaSQL.target, mergeOp.schemaSQL.staging,
         mergeOp.schemaSQL.keyColumns, mergeOp.schemaSQL.joinCondition)

(* The argument list of the form without a partition restriction. *)
FormatArguments_NoPartitionValues(hasPartition) ==
    <<"join_condition", "update_set", "insert_cols", "insert_vals">>

(* The variables handed to FORMAT after the staging table literal. *)
FormatArguments(hasPartition) ==
    IF hasPartition
    THEN <<"join_condition", "partition_values", "update_set", "insert_cols", "insert_vals">>
    ELSE <<"join_condition", "update_set", "insert_cols", "insert_vals">>

MergeStmts(mergeOp, placeholder, partitionColumn) ==
    (IF mergeOp.hasPartition
     THEN <<SetPartitionValues(partitionColumn, placeholder)>> ELSE <<>>)
    \o <<Stmt("SET_merge_sql", placeholder, "", FormatArguments(mergeOp.hasPartition),
              <<mergeOp.mergeSQL>>),
         Stmt("EXECUTE_merge_sql", "", "", <<>>, <<>>)>>

(* The branch with schema migration and reconciliation exchanged. *)
incrementalBranch_ReconcileFirst(createTableSQL, schemaMigrationSQL, mergeOp, placeholder, partitionColumn) ==
    <<createTableSQL, ReconcileStmt(mergeOp)>>
    \o Tail(EnsureAndMigrate(createTableSQL, schemaMigrationSQL))
    \o MergeStmts(mergeOp, placeholder, partitionColumn)

(* BRANCH 2 of postSQL. *)
incrementalBranch(createTableSQL, schemaMigrationSQL, mergeOp, placeholder, partitionColumn) ==
    EnsureAndMigrate(createTableSQL, schemaMigrationSQL)
    \o <<ReconcileStmt(mergeOp)>>
    \o MergeStmts(mergeOp, placeholder, partitionColumn)

ControlStmt(op) == Stmt(op, "", "", <<>>, <<>>)

(* postSQL that probes the warehouse again before its branch test. *)
buildPostSQL_Reprobe(createTableSQL, schemaMigrationSQL, mergeOp, placeholder, targetTable, partitionColumn, cfg) ==
    <<ControlStmt("CLOSE_create_sql"),
      Stmt("SET_target_exists", Part(targetTable, 1) \o "." \o Part(targetTable, 2),
           Part(targetTable, 3), <<>>, <<>>),
      ControlStmt("IF_NOT_target_exists")>>
    \o snapshotBranch(partitionColumn, targetTable)
    \o <<ControlStmt("ELSE")>>
    \o incrementalBranch(createTableSQL, schemaMigrationSQL, mergeOp, placeholder,
                         partitionColumn)
    \o <<ControlStmt("END_IF")>>

(* postSQL whose first-run branch extracts no partition values. *)
buildPostSQL_NoSnapshotPartitions(createTableSQL, schemaMigrationSQL, mergeOp, placeholder, targetTable, partitionColumn, cfg) ==
    <<ControlStmt("CLOSE_create_sql"), ControlStmt("IF_NOT_target_exists"),
      ControlStmt("ELSE")>>
    \o incrementalBranch(createTableSQL, schemaMigrationSQL, mergeOp, placeholder,
                         partitionColumn)
    \o <<ControlStmt("END_IF")>>

buildPostSQL(createTableSQL, schemaMigrationSQL, mergeOp, placeholder, targetTable, partitionColumn, cfg) ==
    <<ControlStmt("CLOSE_create_sql"), ControlStmt("IF_NOT_target_exists")>>
    \o snapshotBranch(partitionColumn, targetTable)
    \o <<ControlStmt("ELSE")>>
    \o incrementalBranch(createTableSQL, schemaMigrationSQL, mergeOp, placeholder,
                         partitionColumn)
    \o <<ControlStmt("END_IF")>>

(* String.prototype.replace(new RegExp(placeholder, 'g'), stagingTable)    *)
(* over the text: every field of every statement that is the placeholder.  *)
ReplaceIn(str, placeholder, by) == IF str = placeholder THEN by ELSE str

----------------------------------------------------------------------------
(* AssertionViewsBuilder: cfg.assertions holds the data_quality and the    *)
(* business_rules checks; present is FALSE when the configuration has no  *)
(* assertions property.                                                    *)

(* dataset of _parseTableInfo *)
tableDataset(target) == IF Len(target) > 2 THEN target[2] ELSE Part(target, 1)

(* tableIdForName of _parseTableInfo *)
tableIdForName(target) ==
    IF Len(target) > 2 THEN target[2] \o "_" \o target[3]
    ELSE Part(target, 1) \o "_" \o (IF Len(target) > 1 THEN target[2] ELSE Part(target, 1))

(* _generateNotNullViewQueries calls check.columns.forEach whenever        *)
(* check.columns is truthy: a TypeError when it is a string.               *)
generateAssertionViewsThrows(cfg) ==
    \E i \in DOMAIN cfg.assertions.data_quality :
        /\ cfg.assertions.data_quality[i].type = "not_null"
        /\ cfg.assertions.data_quality[i].columns.k = "string"

RECURSIVE TypesInOrder(_, _)
(* Object.keys of the checks grouped by type: first occurrence order. *)
TypesInOrder(checks, seen) ==
    IF checks = <<>> THEN <<>>
    ELSE IF Head(checks).type \in seen THEN TypesInOrder(Tail(checks), seen)
    ELSE <<Head(checks).type>> \o TypesInOrder(Tail(checks), seen \cup {Head(checks).type})

(* One sub-query per column of check.columns, else one for check.column;   *)
(* a sub-query is written as its rule name.                                *)
generateNotNullViewQueries(check) ==
    IF check.columns.k # "absent" THEN check.columns.v ELSE <<check.column>>

generateUniqueKeyViewQueries(check) ==
    <<"unique_key: " \o JoinWith(check.columns.v, ", ")>>

(* An aggregate over the whole table: one summary row, kept by HAVING only *)
(* when the count is on the wrong side of the bound.                       *)
rowCountQuery(bound, comparison, n) ==
    "row_count: " \o bound \o "_rows_" \o ToString(n)
    \o " HAVING COUNT " \o comparison \o " " \o ToString(n)

generateRowCountViewQueries_Truthy(check) ==
    (IF check.minRows # <<>> /\ check.minRows[1] # 0
     THEN <<rowCountQuery("min", "<", check.minRows[1])>> ELSE <<>>)
    \o (IF check.maxRows # <<>> /\ check.maxRows[1] # 0
        THEN <<rowCountQuery("max", ">", check.maxRows[1])>> ELSE <<>>)

generateRowCountViewQueries(check) ==
    (IF check.minRows # <<>>
     THEN <<rowCountQuery("min", "<", check.minRows[1])>> ELSE <<>>)
    \o (IF check.maxRows # <<>>
        THEN <<rowCountQuery("max", ">", check.maxRows[1])>> ELSE <<>>)

(* The switch on the check type of the two view generators. *)
viewQueries(check) ==
    IF check.type = "not_null" THEN generateNotNullViewQueries(check)
    ELSE IF check.type = "unique_key" THEN generateUniqueKeyViewQueries(check)
    ELSE IF check.type = "row_count" THEN generateRowCountViewQueries(check)
    ELSE <<>>

RECURSIVE allQueries(_)
(* checks.forEach(check => queries.push(...)) *)
allQueries(checks) ==
    IF checks = <<>> THEN <<>>
    ELSE viewQueries(Head(checks)) \o allQueries(Tail(checks))

(* A partition filter for every partitioned configuration *)
buildPartitionFilter_AnyPartitioned(cfg, isFullRefresh) ==
    IF Truthy(cfg.partitionBy)
    THEN <<"AND " \o Str(cfg.partitionBy) \o " IN (partition_values)">> ELSE <<>>

buildPartitionFilter(cfg, isFullRefresh) ==
    IF cfg.type = "incremental" /\ Truthy(cfg.partitionBy) /\ ~isFullRefresh
    THEN <<"AND " \o Str(cfg.partitionBy) \o " IN (partition_values)">> ELSE <<>>

assertionViewName(assertionDataset, targetTable, group, type) ==
    assertionDataset \o "." \o tableIdForName(targetTable) \o "_" \o group \o "_"
    \o type \o "_build"

RECURSIVE generateGroupViews_Always(_, _, _, _, _, _)
generateGroupViews_Always(group, types, checks, assertionDataset, targetTable, partitionFilter) ==
    IF types = <<>> THEN <<>>
    ELSE LET type == Head(types)
             queries == allQueries(SelectSeq(checks, LAMBDA c : c.type = type))
         IN <<Stmt("CREATE_OR_REPLACE_ASSERTION_VIEW",
                   assertionViewName(assertionDataset, targetTable, group, type),
                   type, queries, partitionFilter)>>
            \o generateGroupViews_Always(group, Tail(types), checks, assertionDataset,
                                         targetTable, partitionFilter)

RECURSIVE generateGroupViews(_, _, _, _, _, _)
(* _generateDataQualityViews and _generateBusinessRulesViews: for every    *)
(* type, in order, a CREATE OR REPLACE VIEW over the UNION ALL of the      *)
(* queries of its checks, when there is at least one query.                *)
generateGroupViews(group, types, checks, assertionDataset, targetTable, partitionFilter) ==
    IF types = <<>> THEN <<>>
    ELSE LET type == Head(types)
             queries == allQueries(SelectSeq(checks, LAMBDA c : c.type = type))
         IN (IF Len(queries) > 0
             THEN <<Stmt("CREATE_OR_REPLACE_ASSERTION_VIEW",
                         assertionViewName(assertionDataset, targetTable, group, type),
                         type, queries, partitionFilter)>>
             ELSE <<>>)
            \o generateGroupViews(group, Tail(types), checks, assertionDataset,
                                  targetTable, partitionFilter)

(* The assertion dataset falls back to the model's dataset. *)
generateAssertionViews(targetTable, cfg, isFullRefresh) ==
    IF ~cfg.assertions.present THEN <<>>
    ELSE LET assertionDataset == tableDataset(targetTable)
             partitionFilter == buildPartitionFilter(cfg, isFullRefresh)
         IN generateGroupViews("data_quality",
                               TypesInOrder(cfg.assertions.data_quality, {}),
                               cfg.assertions.data_quality, assertionDataset,
                               targetTable, partitionFilter)
            \o generateGroupViews("business_rules",
                                  TypesInOrder(cfg.assertions.business_rules, {}),
                                  cfg.assertions.business_rules, assertionDataset,
                                  targetTable, partitionFilter)

replacePlaceholder(sql, placeholder, by) ==
    [i \in DOMAIN sql |->
        Stmt(sql[i].op,
             ReplaceIn(sql[i].a, placeholder, by),
             ReplaceIn(sql[i].b, placeholder, by),
             [j \in DOMAIN sql[i].x |-> ReplaceIn(sql[i].x[j], placeholder, by)],
             sql[i].y)]

IncrementalGenerate(targetTable, uniqueKeys, cfg, now) ==
    LET stagingTable == getStagingTableName(
                            targetTable,
                            IF Truthy(cfg.stagingDataset) THEN cfg.stagingDataset ELSE "Staging",
                            cfg.timestampInStagingName, now)
        mergeConfig == [uniqueKeys |-> uniqueKeys, partitionBy |-> cfg.partitionBy,
                        clusterBy |-> cfg.clusterBy, description |-> cfg.description]
        mergeOp == generateMergeOperation(targetTable, stagingTable, mergeConfig)
        createTableSQL == generateCreateTableSQL(targetTable, stagingTable, mergeConfig)
        schemaMigrationSQL == generateSchemaMigrationSQL(targetTable, stagingTable)
        begin_daysBack == OrNumber(cfg.begin_daysBack, DefaultBeginDaysBack)
        end_daysBack == OrNumber(cfg.end_daysBack, DefaultEndDaysBack)
        partitionColumn == cfg.partitionBy
        isFullRefresh == cfg.fullRefresh
        variableDeclarations == buildVariableDeclarations(isFullRefresh, begin_daysBack,
                                                          end_daysBack, partitionColumn)
        preSQL == buildPreSQL(variableDeclarations, stagingTablePlaceholder, targetTable,
                              uniqueKeys, partitionColumn, isFullRefresh, cfg, now)
        postSQL == buildPostSQL(createTableSQL, schemaMigrationSQL, mergeOp,
                                stagingTablePlaceholder, targetTable, partitionColumn, cfg)
    IN [preSQL |-> replacePlaceholder(preSQL, stagingTablePlaceholder, FullName(stagingTable)),
        postSQL |-> replacePlaceholder(postSQL, stagingTablePlaceholder, FullName(stagingTable))
                    \o generateAssertionViews(targetTable, cfg, isFullRefresh),
        metadata |-> [stagingTable |-> FullName(stagingTable)]]


----------------------------------------------------------------------------
(* SnapshotPattern and ViewPattern *)

snapshotBuildPreSQL(targetTable, tableOptions, metadata, now) ==
    <<Stmt("BANNER", "SNAPSHOT", isoDate(now), <<>>, <<>>),
      Stmt("DROP_TABLE_IF_EXISTS", FullName(targetTable), "", <<>>, <<>>),
      Stmt("CREATE_TABLE", FullName(targetTable), "", tableOptions \o metadata, <<>>)>>

snapshotBuildPostSQL ==
    <<ControlStmt("CLOSE_create"), ControlStmt("SNAPSHOT_COMPLETE")>>

SnapshotGenerate(targetTable, cfg, now) ==
    [preSQL |-> snapshotBuildPreSQL(targetTable, TableOptionsBuild(cfg),
                                    buildTableMetadata(cfg), now),
     postSQL |-> snapshotBuildPostSQL]

viewType(isMaterialized) == IF isMaterialized THEN "MATERIALIZED VIEW" ELSE "VIEW"

viewBuildPreSQL(viewName, description, isMaterialized, now) ==
    <<Stmt("BANNER", viewType(isMaterialized), isoDate(now), <<>>, <<>>),
      Stmt("CREATE_OR_REPLACE_" \o viewType(isMaterialized), FullName(viewName), "",
           description, <<>>)>>

viewBuildPostSQL(isMaterialized) ==
    <<ControlStmt("CLOSE_create"), ControlStmt(viewType(isMaterialized) \o "_COMPLETE")>>

buildMaterializedViewOptions(cfg) ==
    (IF Truthy(cfg.description) THEN <<"description=" \o cfg.description>> ELSE <<>>)
    \o (IF cfg.autoRefresh
        THEN <<"enable_refresh=true", "refresh_interval_minutes=60">> ELSE <<>>)

(* A view builder that honours autoRefresh on plain views too *)
ViewGenerate_AutoRefreshAlways(viewName, cfg, now) ==
    [preSQL |-> viewBuildPreSQL(viewName, buildMaterializedViewOptions(cfg),
                                cfg.materialized, now),
     postSQL |-> viewBuildPostSQL(cfg.materialized)]

ViewGenerate(viewName, cfg, now) ==
    IF cfg.materialized
    THEN [preSQL |-> viewBuildPreSQL(viewName, buildMaterializedViewOptions(cfg), TRUE, now),
          postSQL |-> viewBuildPostSQL(TRUE)]
    ELSE [preSQL |-> viewBuildPreSQL(viewName,
                        IF Truthy(cfg.description)
                        THEN <<"OPTIONS(description=" \o cfg.description \o ")">> ELSE <<>>,
                        FALSE, now),
          postSQL |-> viewBuildPostSQL(FALSE)]

----------------------------------------------------------------------------
(* The warehouse: catalogs and rows *)

Col(name, type) == [name |-> name, type |-> type]
ColNames(cols) == {cols[i].name : i \in DOMAIN cols}
NameSeq(cols) == [i \in DOMAIN cols |-> cols[i].name]

NoTable == [exists |-> FALSE, cols |-> <<>>, rows |-> {}]
Table(cols, rows) == [exists |-> TRUE, cols |-> cols, rows |-> rows]

RECURSIVE SelectSeq2(_, _, _)
(* the subsequence of s of the elements e with keep[e.name] *)
SelectSeq2(s, names, i) ==
    IF i > Len(s) THEN <<>>
    ELSE (IF s[i].name \in names THEN <<s[i]>> ELSE <<>>) \o SelectSeq2(s, names, i + 1)

RECURSIVE SortedSeq(_)
SortedSeq(S) ==
    IF S = {} THEN <<>>
    ELSE LET m == CHOOSE x \in S : \A y \in S : x <= y
         IN <<m>> \o SortedSeq(S \ {m})

(* INFORMATION_SCHEMA.COLUMNS of a table: nothing when it does not exist.  *)
Catalog(tbls, name) ==
    IF name \in DOMAIN tbls /\ tbls[name].exists THEN tbls[name].cols ELSE <<>>

TableExists(tbls, name) == name \in DOMAIN tbls /\ tbls[name].exists

(* The migration query with the join on column_name and data_type. *)
RunSchemaMigrationQuery_ByNameAndType(tbls, alter, staging, target) ==
    LET s == Catalog(tbls, staging)
        t == SeqToSet(Catalog(tbls, target))
        new == SelectSeq(s, LAMBDA c : c \notin t)
    IN IF new = <<>> THEN VNull
       ELSE Val("array", [i \in DOMAIN new |->
                <<"ALTER TABLE ", alter, " ADD COLUMN ", new[i].name, " ", new[i].type>>])

(* The query of generateSchemaMigrationSQL: staging LEFT JOIN target on    *)
(* column_name WHERE t.column_name IS NULL, one ALTER text per row;        *)
(* ARRAY_AGG over no rows is NULL.                                         *)
RunSchemaMigrationQuery(tbls, alter, staging, target) ==
    LET s == Catalog(tbls, staging)
        t == ColNames(Catalog(tbls, target))
        new == SelectSeq2(s, ColNames(s) \ t, 1)
    IN IF new = <<>> THEN VNull
       ELSE Val("array", [i \in DOMAIN new |->
                <<"ALTER TABLE ", alter, " ADD COLUMN ", new[i].name, " ", new[i].type>>])

(* The reconciler query without the NOT IN filter of update_columns. *)
RunSchemaSQL_KeysUpdated(tbls, target, staging, keyColumns, joinCondition) ==
    LET final_columns ==
            IF TableExists(tbls, target)
            THEN NameSeq(SelectSeq2(Catalog(tbls, staging), ColNames(Catalog(tbls, target)), 1))
            ELSE NameSeq(Catalog(tbls, staging))
    IN [update_set |-> IF final_columns = <<>> THEN VNull
                       ELSE Val("assign", [i \in DOMAIN final_columns |->
                              <<final_columns[i], " = source.", final_columns[i]>>]),
        insert_cols |-> IF final_columns = <<>> THEN VNull
                        ELSE Val("cols", [i \in DOMAIN final_columns |-> <<final_columns[i]>>]),
        insert_vals |-> IF final_columns = <<>> THEN VNull
                        ELSE Val("vals", [i \in DOMAIN final_columns |->
                               <<"source.", final_columns[i]>>]),
        join_condition |-> Val("join", joinCondition)]

(* The query of generateSchemaSQL, CTE by CTE.  STRING_AGG over no rows is *)
(* NULL.  Rows are aggregated in staging ordinal order.                    *)
RunSchemaSQL(tbls, target, staging, keyColumns, joinCondition) ==
    LET table_exists == TableExists(tbls, target)
        target_columns == Catalog(tbls, target)
        staging_columns == Catalog(tbls, staging)
        final_columns ==
            IF table_exists
            THEN NameSeq(SelectSeq2(staging_columns, ColNames(target_columns), 1))
            ELSE NameSeq(staging_columns)
        update_columns == SelectSeq(final_columns, LAMBDA c : c \notin SeqToSet(keyColumns))
        all_columns == final_columns
    IN [update_set |-> IF update_columns = <<>> THEN VNull
                       ELSE Val("assign", [i \in DOMAIN update_columns |->
                              <<update_columns[i], " = source.", update_columns[i]>>]),
        insert_cols |-> IF all_columns = <<>> THEN VNull
                        ELSE Val("cols", [i \in DOMAIN all_columns |-> <<all_columns[i]>>]),
        insert_vals |-> IF all_columns = <<>> THEN VNull
                        ELSE Val("vals", [i \in DOMAIN all_columns |->
                               <<"source.", all_columns[i]>>]),
        join_condition |-> Val("join", joinCondition)]

(* SELECT STRING_AGG(DISTINCT CONCAT("'", expr, "'"), ", ") FROM table:    *)
(* NULL over no rows; a bare column is the only expression evaluated.      *)
RunPartitionValues(tbls, column, from) ==
    LET vals == {r[column] : r \in tbls[from].rows}
    IN IF vals \ {0} = {} THEN VNull
       ELSE Val("plist", [i \in DOMAIN SortedSeq(vals \ {0}) |->
                            <<"'", ToString(SortedSeq(vals \ {0})[i]), "'">>])


----------------------------------------------------------------------------
(* FORMAT and MERGE *)

SlotCount(template) == Cardinality({i \in DOMAIN template : template[i] = Slot})

(* Number of slots among the first i tokens. *)
SlotsUpTo(template, i) == Cardinality({j \in 1..i : template[j] = Slot})

(* FORMAT(template, args...): an error when the argument count differs     *)
(* from the number of %s, NULL when an argument is NULL, else the template *)
(* with the k-th %s replaced by the k-th argument.                         *)
Format(template, args) ==
    IF SlotCount(template) # Len(args) THEN Val("error", <<>>)
    ELSE IF \E k \in DOMAIN args : IsNull(args[k]) THEN VNull
    ELSE Val("sql", [i \in DOMAIN template |->
                IF template[i] = Slot
                THEN [lit |-> Slot, arg |-> args[SlotsUpTo(template, i)]]
                ELSE [lit |-> template[i], arg |-> VNull]])

(* The argument that fills the slot right after the literal lit. *)
ArgAfter(sql, lit) ==
    IF \E i \in 1..(Len(sql) - 1) : sql[i].lit = lit /\ sql[i + 1].lit = Slot
    THEN sql[(CHOOSE i \in 1..(Len(sql) - 1) : sql[i].lit = lit /\ sql[i + 1].lit = Slot) + 1].arg
    ELSE VNull

HasLit(sql, lit) == \E i \in DOMAIN sql : sql[i].lit = lit

(* The parsed MERGE text: NULL fields where the text has no such clause. *)
ParseMerge(sql) ==
    [target |-> sql[2].lit,
     source |-> ArgAfter(sql, " target USING (SELECT * FROM "),
     on |-> ArgAfter(sql, ") source ON "),
     hasPartition |-> HasLit(sql, " IN ("),
     partitionExpr |-> IF HasLit(sql, " IN (")
                       THEN sql[(CHOOSE i \in DOMAIN sql : sql[i].lit = " IN (") - 1].lit
                       ELSE "",
     partitionValues |-> ArgAfter(sql, " IN ("),
     update |-> IF HasLit(sql, " IN (")
                THEN ArgAfter(sql, ") WHEN MATCHED THEN UPDATE SET ")
                ELSE ArgAfter(sql, " WHEN MATCHED THEN UPDATE SET "),
     insertCols |-> ArgAfter(sql, " WHEN NOT MATCHED THEN INSERT ("),
     insertVals |-> ArgAfter(sql, ") VALUES ("),
     hasDelete |-> HasLit(sql, " WHEN NOT MATCHED BY SOURCE THEN DELETE")]

(* The equalities of an ON text of the form                               *)
(* target.k = source.k AND target.l = source.l ...                        *)
TermLength == 5
OnTerms(on) == [i \in 1..((Len(on) + 1) \div (TermLength + 1)) |->
                  SubSeq(on, (TermLength + 1) * (i - 1) + 1, (TermLength + 1) * (i - 1) + TermLength)]
OnWellFormed(on) ==
    /\ Len(on) % (TermLength + 1) = TermLength
    /\ \A i \in DOMAIN on : i % (TermLength + 1) = 0 => on[i] = " AND "
    /\ \A i \in DOMAIN OnTerms(on) :
          LET t == OnTerms(on)[i]
          IN t[1] = "target." /\ t[3] = " = " /\ t[4] = "source."

(* The statement is well formed when every clause holds text of its kind  *)
(* and names only columns that exist.                                     *)
MergeWellFormed(m, tbls) ==
    /\ m.source.k = "name" /\ m.on.k = "join" /\ m.update.k = "assign"
    /\ m.insertCols.k = "cols" /\ m.insertVals.k = "vals"
    /\ (m.hasPartition => m.partitionValues.k = "plist")
    /\ OnWellFormed(m.on.v)
    /\ TableExists(tbls, m.target) /\ TableExists(tbls, m.source.v[1])
    /\ LET tc == ColNames(tbls[m.target].cols)
           sc == ColNames(tbls[m.source.v[1]].cols)
       IN /\ \A i \in DOMAIN OnTerms(m.on.v) :
                OnTerms(m.on.v)[i][2] \in tc /\ OnTerms(m.on.v)[i][5] \in sc
          /\ \A i \in DOMAIN m.update.v : m.update.v[i][1] \in tc /\ m.update.v[i][3] \in sc
          /\ \A i \in DOMAIN m.insertCols.v : m.insertCols.v[i][1] \in tc
          /\ \A i \in DOMAIN m.insertVals.v : m.insertVals.v[i][2] \in sc
          /\ Len(m.insertCols.v) = Len(m.insertVals.v)
          /\ (m.hasPartition => \E c \in tc : "target." \o c = m.partitionExpr)

(* ON clause: key equalities (NULL = NULL is not true) and, when present, *)
(* the partition restriction on the target row.                           *)
MergeMatches(m, tbls, t, s) ==
    /\ \A i \in DOMAIN OnTerms(m.on.v) :
          LET e == OnTerms(m.on.v)[i]
          IN t[e[2]] = s[e[5]] /\ t[e[2]] # 0
    /\ m.hasPartition =>
          LET c == CHOOSE c \in ColNames(tbls[m.target].cols) : "target." \o c = m.partitionExpr
          IN \E i \in DOMAIN m.partitionValues.v :
                m.partitionValues.v[i][2] = ToString(t[c])

(* The rows of the target after the MERGE. *)
MergeResult(m, tbls) ==
    LET T == tbls[m.target].rows
        S == tbls[m.source.v[1]].rows
        tc == ColNames(tbls[m.target].cols)
        src(t) == CHOOSE s \in S : MergeMatches(m, tbls, t, s)
        updated(t) ==
            [c \in tc |->
                IF \E i \in DOMAIN m.update.v : m.update.v[i][1] = c
                THEN src(t)[m.update.v[CHOOSE i \in DOMAIN m.update.v : m.update.v[i][1] = c][3]]
                ELSE t[c]]
        inserted(s) ==
            [c \in tc |->
                IF \E i \in DOMAIN m.insertCols.v : m.insertCols.v[i][1] = c
                THEN s[m.insertVals.v[CHOOSE i \in DOMAIN m.insertCols.v :
                                          m.insertCols.v[i][1] = c][2]]
                ELSE 0]
        matched(t) == \E s \in S : MergeMatches(m, tbls, t, s)
    IN {IF matched(t) THEN updated(t) ELSE t : t \in {t \in T : matched(t) \/ ~m.hasDelete}}
       \cup {inserted(s) : s \in {s \in S : ~\E t \in T : MergeMatches(m, tbls, t, s)}}

(* BigQuery rejects a MERGE in which one target row matches several       *)
(* source rows.                                                           *)
MergeAmbiguous(m, tbls) ==
    \E t \in tbls[m.target].rows :
        Cardinality({s \in tbls[m.source.v[1]].rows : MergeMatches(m, tbls, t, s)}) > 1


----------------------------------------------------------------------------
(* The configurations, targets and query results of the model *)

Target == <<"p", "d", "t">>
TargetName == FullName(Target)

(* JavaScript values of the properties whose type the validator tests: a   *)
(* property is absent, an array of strings, an array of strings with one   *)
(* number among them, or a plain string.                                   *)
Absent == [k |-> "absent", v |-> <<>>]
ArrayOf(v) == [k |-> "array", v |-> v]
MixedOf(v) == [k |-> "mixed", v |-> v]
StringOf(v) == [k |-> "string", v |-> <<v>>]

isArray(x) == x.k \in {"array", "mixed"}
someNotString(x) == x.k = "mixed"
length(x) == IF x.k = "mixed" THEN Len(x.v) + 1 ELSE Len(x.v)

(* A number is <<n>> when it is the integer n and <<n, 5>> when it is n.5. *)
isInteger(x) == Len(x) = 1
isZero(x) == x = <<0>>
greater(x, n) == x[1] > n \/ (x[1] = n /\ Len(x) = 2)

(* A check of the assertions block; column is "" when absent. *)
Check(type, column, columns) ==
    [type |-> type, column |-> column, columns |-> columns,
     minRows |-> Undefined, maxRows |-> Undefined]
RowCount(minRows, maxRows) ==
    [type |-> "row_count", column |-> "", columns |-> Absent,
     minRows |-> minRows, maxRows |-> maxRows]

(* No assertions property, and one holding the two lists of checks. *)
NoAssertions == [present |-> FALSE, data_quality |-> <<>>, business_rules |-> <<>>]
Assertions(data_quality, business_rules) ==
    [present |-> TRUE, data_quality |-> data_quality, business_rules |-> business_rules]

(* A configuration as the patterns read it: absent options are "" / <<>>  *)
(* / FALSE.                                                                *)
Config(type, uniqueKeys, partitionBy) ==
    [type |-> type, uniqueKeys |-> uniqueKeys, partitionBy |-> partitionBy,
     clusterBy |-> <<>>, description |-> "", stagingDataset |-> "",
     timestampInStagingName |-> FALSE, fullRefresh |-> FALSE,
     begin_daysBack |-> <<>>, end_daysBack |-> <<>>,
     materialized |-> FALSE, autoRefresh |-> FALSE, assertions |-> NoAssertions]

(* A factoryConfig as a model file writes it: uniqueKeys and clusterBy are *)
(* JavaScript values, unknown is the set of properties the library does    *)
(* not know.                                                               *)
FactoryConfig(cfg, unknown) ==
    [type |-> cfg.type,
     uniqueKeys |-> IF cfg.uniqueKeys = <<>> THEN Absent ELSE ArrayOf(cfg.uniqueKeys),
     partitionBy |-> cfg.partitionBy,
     clusterBy |-> IF cfg.clusterBy = <<>> THEN Absent ELSE ArrayOf(cfg.clusterBy),
     description |-> cfg.description, stagingDataset |-> cfg.stagingDataset,
     timestampInStagingName |-> cfg.timestampInStagingName,
     fullRefresh |-> cfg.fullRefresh,
     begin_daysBack |-> cfg.begin_daysBack, end_daysBack |-> cfg.end_daysBack,
     materialized |-> cfg.materialized, autoRefresh |-> cfg.autoRefresh,
     assertions |-> cfg.assertions, unknown |-> unknown]

(* const mergedConfig = {...factoryConfig, description}: the properties as *)
(* the patterns read them.                                                 *)
MergedConfig(factoryConfig) ==
    [type |-> factoryConfig.type,
     uniqueKeys |-> IF isArray(factoryConfig.uniqueKeys) THEN factoryConfig.uniqueKeys.v
                    ELSE <<>>,
     partitionBy |-> factoryConfig.partitionBy,
     clusterBy |-> IF isArray(factoryConfig.clusterBy) THEN factoryConfig.clusterBy.v
                   ELSE <<>>,
     description |-> factoryConfig.description,
     stagingDataset |-> factoryConfig.stagingDataset,
     timestampInStagingName |-> factoryConfig.timestampInStagingName,
     fullRefresh |-> factoryConfig.fullRefresh,
     begin_daysBack |-> factoryConfig.begin_daysBack,
     end_daysBack |-> factoryConfig.end_daysBack,
     materialized |-> factoryConfig.materialized, autoRefresh |-> factoryConfig.autoRefresh,
     assertions |-> factoryConfig.assertions]

RunConfigs == {Config("incremental", <<"id">>, <<>>),
               Config("incremental", <<"id">>, <<"d", "a", "y">>)}

BaseCatalog == <<Col("id", "INT64"), Col("day", "DATE")>>

QueryCatalogs == {BaseCatalog,
                  BaseCatalog \o <<Col("a", "STRING")>>,
                  BaseCatalog \o <<Col("a", "INT64"), Col("b", "STRING")>>}

TargetCatalogs == {BaseCatalog, BaseCatalog \o <<Col("a", "STRING")>>}

Ids == {1, 2}
Days == {1, 2}

(* The rows of a relation with catalog cols: a key, a partition day and    *)
(* the payload p in every other column.                                    *)
RowOf(cols, id, day, p) ==
    [c \in ColNames(cols) |-> IF c = "id" THEN id ELSE IF c = "day" THEN day ELSE p]

RowSets(cols, p) ==
    {{RowOf(cols, k[1], k[2], p) : k \in K} :
        K \in {K \in SUBSET (Ids \X Days) : Cardinality(K) <= MaxRows}}

UniqueById(rows) == \A r1, r2 \in rows : r1["id"] = r2["id"] => r1 = r2

QueryResults(p) ==
    UNION {{Table(cols, rows) : rows \in RowSets(cols, p)} : cols \in QueryCatalogs}

InitialTargets ==
    {NoTable} \cup
    UNION {{Table(cols, rows) : rows \in {R \in RowSets(cols, 0) : UniqueById(R)}} :
              cols \in TargetCatalogs}

StagingName(cfg, now) ==
    FullName(getStagingTableName(Target,
                 IF Truthy(cfg.stagingDataset) THEN cfg.stagingDataset ELSE "Staging",
                 cfg.timestampInStagingName, now))

VarNames == {"target_exists", "beginDate", "limitDate", "update_set", "insert_cols",
             "insert_vals", "join_condition", "merge_sql", "partition_values",
             "alter_statements", "create_sql"}

NoVars == [n \in VarNames |-> VNull]

(* No run has been cut short. *)
NoFailure == [run |-> 0, target |-> NoTable, created |-> FALSE, query |-> NoTable]

GenIdle == [phase |-> "idle", kind |-> "none", input |-> <<>>, output |-> <<>>,
            again |-> <<>>, at |-> 0, at2 |-> 0]
Target2 == <<"p", "d", "u">>
Targets == {Target, Target2}


(* let currentModelContext = { fullRefresh: false, targetTable: null } *)
InitialModelContext ==
    [fullRefresh |-> FALSE, targetTable |-> Undefined,
     begin_daysBack |-> Undefined, end_daysBack |-> Undefined]

(* A key the modelContexts Map does not hold. *)
NoContext == [present |-> FALSE, fullRefresh |-> FALSE,
              begin_daysBack |-> Undefined, end_daysBack |-> Undefined]

NoModel == [preSQL |-> <<>>, postSQL |-> <<>>]

NoCall == [target |-> Target, cfg |-> FactoryConfig(Config("", <<>>, <<>>), {}),
           threw |-> FALSE, errors |-> <<>>, warnings |-> <<>>,
           produced |-> FALSE, model |-> NoModel,
           before |-> [currentModelContext |-> InitialModelContext,
                       modelContexts |-> [t \in Targets |-> NoContext],
                       registered |-> {}]]

(* No date filter rendered yet. *)
NoFilter == [given |-> FALSE, bound |-> FALSE, target |-> Target,
             cfg |-> FactoryConfig(Config("", <<>>, <<>>), {}),
             useVariable |-> TRUE, text |-> ""]

(* The module state of the factory and of SQLXUtils after loading, the     *)
(* assertions Dataform has registered, the results create() has returned   *)
(* (each closes over its target), a record of the last call and of the     *)
(* last date filter rendered.                                              *)
FactoryIdle ==
    [currentModelContext |-> InitialModelContext,
     modelContexts |-> [t \in Targets |-> NoContext],
     registered |-> {},
     results |-> {},
     calls |-> 0,
     last |-> NoCall,
     filter |-> NoFilter]


----------------------------------------------------------------------------
(* Execution of the emitted program, one statement per step *)

Failed == -1
Done == pc = Len(script) + 1
Running == pc \in 1..Len(script)
At(op) == Running /\ script[pc].op = op
Cur == script[pc]

Others == UNCHANGED <<gen, clock, factory, failure>>
Step(op, table) ==
    /\ pc' = pc + 1
    /\ executed' = Append(executed, <<op, table>>)
Fail(op) ==
    /\ pc' = Failed
    /\ executed' = Append(executed, <<"ERROR", op>>)
    /\ UNCHANGED <<tables, vars, declared, probe>>
Assigned(name) == name \in declared

(* Index of the next statement with operation op after position i. *)
NextOp(i, op) == CHOOSE j \in (i + 1)..Len(script) :
                    script[j].op = op /\ \A k \in (i + 1)..(j - 1) : script[k].op # op

QueryStmt == Stmt("QUERY", "", "", <<>>, <<>>)

Init ==
    /\ config \in RunConfigs
    /\ clock = 0
    /\ \E t \in InitialTargets :
          tables = [n \in {TargetName, StagingName(config, clock)} |->
                       IF n = TargetName THEN t ELSE NoTable]
    /\ script = <<>>
    /\ pc = 0
    /\ vars = NoVars
    /\ declared = {}
    /\ executed = <<>>
    /\ probe = <<>>
    /\ before = NoTable
    /\ runs = 0
    /\ gen = GenIdle
    /\ factory = FactoryIdle
    /\ failure = NoFailure

(* Dataform compiles the model and submits preSQL, the query and postSQL   *)
(* as one script.                                                          *)
StartRun ==
    /\ pc \in {0, Failed} \/ (pc > 0 /\ Done)
    /\ runs < MaxRuns
    /\ LET g == IncrementalGenerate(Target, config.uniqueKeys, config, clock)
       IN script' = g.preSQL \o <<QueryStmt>> \o g.postSQL
    /\ pc' = 1
    /\ vars' = NoVars
    /\ declared' = {}
    /\ executed' = <<>>
    /\ probe' = <<>>
    /\ before' = tables[TargetName]
    /\ runs' = runs + 1
    /\ UNCHANGED <<config, tables>>
    /\ Others

Banner ==
    /\ At("BANNER")
    /\ pc' = pc + 1
    /\ UNCHANGED <<config, tables, script, vars, declared, executed, probe, before, runs>>
    /\ Others

DeclareVariable ==
    /\ At("DECLARE")
    /\ declared' = declared \cup {Cur.a}
    /\ vars' = [vars EXCEPT ![Cur.a] = IF Cur.b = "" THEN VNull ELSE Val("date", <<Cur.b>>)]
    /\ pc' = pc + 1
    /\ UNCHANGED <<config, tables, script, executed, probe, before, runs>>
    /\ Others

(* SET target_exists = the INFORMATION_SCHEMA.TABLES probe *)
ProbeTarget ==
    /\ At("SET_target_exists")
    /\ IF Assigned("target_exists")
       THEN /\ vars' = [vars EXCEPT !["target_exists"] =
                           Val("bool", <<TableExists(tables, Cur.a \o "." \o Cur.b)>>)]
            /\ probe' = Append(probe, TableExists(tables, Cur.a \o "." \o Cur.b))
            /\ Step("SET_target_exists", Cur.a \o "." \o Cur.b)
            /\ UNCHANGED <<tables, declared>>
       ELSE Fail("SET_target_exists")
    /\ UNCHANGED <<config, script, before, runs>>
    /\ Others

(* IF NOT target_exists THEN ... ELSE ... END IF: a NULL condition takes   *)
(* the ELSE branch.                                                        *)
IfNotTargetExists ==
    /\ At("IF_NOT_target_exists")
    /\ IF Assigned("target_exists")
       THEN LET absent == ~IsNull(vars["target_exists"]) /\ ~vars["target_exists"].v[1]
            IN /\ pc' = IF absent THEN pc + 1 ELSE NextOp(pc, "ELSE") + 1
               /\ executed' = Append(executed, <<"IF", IF absent THEN "snapshot" ELSE "incremental">>)
               /\ UNCHANGED <<tables, vars, declared, probe>>
       ELSE Fail("IF_NOT_target_exists")
    /\ UNCHANGED <<config, script, before, runs>>
    /\ Others

(* Reaching ELSE ends the THEN branch; END IF is passed over. *)
ElseEndIf ==
    /\ At("ELSE") \/ At("END_IF")
    /\ pc' = IF Cur.op = "ELSE" THEN NextOp(pc, "END_IF") + 1 ELSE pc + 1
    /\ UNCHANGED <<config, tables, script, vars, declared, executed, probe, before, runs>>
    /\ Others

SetCreateSql ==
    /\ At("SET_create_sql")
    /\ IF Assigned("create_sql")
       THEN /\ vars' = [vars EXCEPT !["create_sql"] = Val("create", <<Cur.a, Cur.b>> \o Cur.x)]
            /\ pc' = pc + 1
            /\ UNCHANGED <<tables, declared, executed, probe>>
       ELSE Fail("SET_create_sql")
    /\ UNCHANGED <<config, script, before, runs>>
    /\ Others

(* EXECUTE IMMEDIATE create_sql || query || ")": the CREATE statement held *)
(* by create_sql, run over this run's query result.  CREATE TABLE fails    *)
(* when the table exists; CREATE OR REPLACE TABLE replaces it.             *)
ExecuteCreate ==
    /\ At("EXECUTE_IMMEDIATE_create_sql")
    /\ pc + 2 <= Len(script)
    /\ script[pc + 1].op = "QUERY" /\ script[pc + 2].op = "CLOSE_create_sql"
    /\ \E q \in QueryResults(1) :
          LET c == vars["create_sql"]
          IN IF IsNull(c) \/ (c.v[1] = "CREATE TABLE" /\ TableExists(tables, c.v[2]))
             THEN Fail("EXECUTE_IMMEDIATE_create_sql")
             ELSE /\ tables' = [tables EXCEPT ![c.v[2]] = q]
                  /\ pc' = pc + 3
                  /\ executed' = Append(executed, <<c.v[1], c.v[2]>>)
                  /\ UNCHANGED <<vars, declared, probe>>
    /\ UNCHANGED <<config, script, before, runs>>
    /\ Others

ExtractPartitionValues ==
    /\ At("SET_partition_values")
    /\ IF /\ Assigned("partition_values")
          /\ TableExists(tables, Cur.b)
          /\ Cur.a \in ColNames(tables[Cur.b].cols)
       THEN /\ vars' = [vars EXCEPT !["partition_values"] =
                           RunPartitionValues(tables, Cur.a, Cur.b)]
            /\ Step("SET_partition_values", Cur.b)
            /\ UNCHANGED <<tables, declared, probe>>
       ELSE Fail("SET_partition_values")
    /\ UNCHANGED <<config, script, before, runs>>
    /\ Others

(* CREATE TABLE IF NOT EXISTS target AS (SELECT * FROM staging WHERE FALSE) *)
EnsureTarget ==
    /\ At("CREATE_TABLE_IF_NOT_EXISTS")
    /\ IF TableExists(tables, Cur.b)
       THEN /\ tables' = IF TableExists(tables, Cur.a) THEN tables
                         ELSE [tables EXCEPT ![Cur.a] = Table(tables[Cur.b].cols, {})]
            /\ Step("CREATE_TABLE_IF_NOT_EXISTS", Cur.a)
            /\ UNCHANGED <<vars, declared, probe>>
       ELSE Fail("CREATE_TABLE_IF_NOT_EXISTS")
    /\ UNCHANGED <<config, script, before, runs>>
    /\ Others

SetAlterStatements ==
    /\ At("SET_alter_statements")
    /\ IF Assigned("alter_statements")
       THEN /\ vars' = [vars EXCEPT !["alter_statements"] =
                           RunSchemaMigrationQuery(tables, Cur.a, Cur.b, Cur.x[1])]
            /\ Step("SET_alter_statements", Cur.a)
            /\ UNCHANGED <<tables, declared, probe>>
       ELSE Fail("SET_alter_statements")
    /\ UNCHANGED <<config, script, before, runs>>
    /\ Others

AltersDone == Cardinality({i \in DOMAIN executed : executed[i][1] = "ALTER"})

(* FOR stmt IN UNNEST(alter_statements) DO EXECUTE IMMEDIATE stmt.s: one   *)
(* ALTER TABLE ... ADD COLUMN per step; adding an existing column fails.   *)
ExecuteAlter ==
    /\ At("EXECUTE_alter_statements")
    /\ ~IsNull(vars["alter_statements"])
    /\ AltersDone < Len(vars["alter_statements"].v)
    /\ LET st == vars["alter_statements"].v[AltersDone + 1]
           t == st[2]
       IN IF TableExists(tables, t) /\ st[4] \notin ColNames(tables[t].cols)
          THEN /\ tables' = [tables EXCEPT ![t] =
                                Table(Append(tables[t].cols, Col(st[4], st[6])),
                                      {[c \in ColNames(tables[t].cols) \cup {st[4]} |->
                                           IF c = st[4] THEN 0 ELSE r[c]] : r \in tables[t].rows})]
               /\ pc' = pc
               /\ executed' = Append(executed, <<"ALTER", st[4]>>)
               /\ UNCHANGED <<vars, declared, probe>>
          ELSE Fail("ALTER")
    /\ UNCHANGED <<config, script, before, runs>>
    /\ Others

(* IF alter_statements IS NOT NULL ... END IF, left when the loop is over. *)
EndAlterLoop ==
    /\ At("EXECUTE_alter_statements")
    /\ IsNull(vars["alter_statements"]) \/ AltersDone >= Len(vars["alter_statements"].v)
    /\ pc' = pc + 1
    /\ UNCHANGED <<config, tables, script, vars, declared, executed, probe, before, runs>>
    /\ Others

(* EXECUTE IMMEDIATE schemaSQL INTO update_set, insert_cols, insert_vals,  *)
(* join_condition                                                          *)
Reconcile ==
    /\ At("EXECUTE_schemaSQL_INTO")
    /\ IF {"update_set", "insert_cols", "insert_vals", "join_condition"} \subseteq declared
       THEN LET r == RunSchemaSQL(tables, Cur.a, Cur.b, Cur.x, Cur.y)
            IN /\ vars' = [vars EXCEPT !["update_set"] = r.update_set,
                                        !["insert_cols"] = r.insert_cols,
                                        !["insert_vals"] = r.insert_vals,
                                        !["join_condition"] = r.join_condition]
               /\ Step("EXECUTE_schemaSQL_INTO", Cur.a)
               /\ UNCHANGED <<tables, declared, probe>>
       ELSE Fail("EXECUTE_schemaSQL_INTO")
    /\ UNCHANGED <<config, script, before, runs>>
    /\ Others

(* SET merge_sql = FORMAT(template, 'staging', variables...) *)
SetMergeSql ==
    /\ At("SET_merge_sql")
    /\ LET args == <<Val("name", <<Cur.a>>)>> \o [i \in DOMAIN Cur.x |-> vars[Cur.x[i]]]
           f == Format(Cur.y[1], args)
       IN IF Assigned("merge_sql") /\ SeqToSet(Cur.x) \subseteq declared /\ f.k # "error"
          THEN /\ vars' = [vars EXCEPT !["merge_sql"] = f]
               /\ Step("SET_merge_sql", Cur.a)
               /\ UNCHANGED <<tables, declared, probe>>
          ELSE Fail("SET_merge_sql")
    /\ UNCHANGED <<config, script, before, runs>>
    /\ Others

(* EXECUTE IMMEDIATE merge_sql: a NULL or malformed statement, or one in   *)
(* which a target row matches several source rows, fails and changes       *)
(* nothing.                                                                *)
ExecuteMerge ==
    /\ At("EXECUTE_merge_sql")
    /\ LET sql == vars["merge_sql"]
       IN IF /\ sql.k = "sql"
             /\ MergeWellFormed(ParseMerge(sql.v), tables)
             /\ ~MergeAmbiguous(ParseMerge(sql.v), tables)
          THEN LET m == ParseMerge(sql.v)
               IN /\ tables' = [tables EXCEPT ![m.target].rows = MergeResult(m, tables)]
                  /\ Step("MERGE", m.source.v[1])
                  /\ UNCHANGED <<vars, declared, probe>>
          ELSE Fail("MERGE")
    /\ UNCHANGED <<config, script, before, runs>>
    /\ Others

Next ==
    \/ StartRun
    \/ Banner
    \/ DeclareVariable
    \/ ProbeTarget
    \/ IfNotTargetExists
    \/ ElseEndIf
    \/ SetCreateSql
    \/ ExecuteCreate
    \/ ExtractPartitionValues
    \/ EnsureTarget
    \/ SetAlterStatements
    \/ ExecuteAlter
    \/ EndAlterLoop
    \/ Reconcile
    \/ SetMergeSql
    \/ ExecuteMerge

Spec == Init /\ [][Next]_vars_all

----------------------------------------------------------------------------
(* Properties of one run of the emitted program *)

Entries(op) == SelectSeq(executed, LAMBDA e : e[1] = op)
Ran(op) == Len(Entries(op)) > 0
IsPrefix(s, t) == Len(s) <= Len(t) /\ \A i \in DOMAIN s : s[i] = t[i]
Partitioned == Truthy(config.partitionBy)
PartitionColumnName == Str(config.partitionBy)
Staging == StagingName(config, clock)
SnapshotRun == probe = <<FALSE>>
IncrementalRun == probe = <<TRUE>>
PathOf(present) == IF present THEN "incremental" ELSE "snapshot"

(* partition_values lists, once each, the partition values of a table.    *)
PartitionValuesAre(table) ==
    LET days == {ToString(r[PartitionColumnName]) : r \in tables[table].rows}
        pv == vars["partition_values"]
    IN IF days = {} THEN IsNull(pv)
       ELSE /\ pv.k = "plist"
            /\ {pv.v[i][2] : i \in DOMAIN pv.v} = days
            /\ Len(pv.v) = Cardinality(days)

(* C1: in every run the probe assigns target_exists exactly once and it is *)
(* never reassigned; each of the two branch tests (preSQL, postSQL) takes  *)
(* the path fixed by the probe, the first-run path exactly when the target *)
(* was absent at the probe, also after preSQL has created the target; a    *)
(* completed run went through the probe and both tests of one path.        *)
C1_ProbeOncePathFixed ==
    /\ Len(probe) <= 1
    /\ Len(Entries("SET_target_exists")) = Len(probe)
    /\ ~IsNull(vars["target_exists"]) =>
          Len(probe) = 1 /\ vars["target_exists"].v[1] = probe[1]
    /\ \A i \in DOMAIN Entries("IF") :
          Len(probe) = 1 /\ Entries("IF")[i][2] = PathOf(probe[1])
    /\ Len(Entries("IF")) <= 2
    /\ (runs > 0 /\ Done) => Len(probe) = 1 /\ Len(Entries("IF")) = 2

(* A first run is over: the target was absent at the probe, exists now,    *)
(* and the postSQL test still took the first-run path.                     *)
C1_Witness ==
    /\ runs > 0 /\ Done
    /\ SnapshotRun
    /\ TableExists(tables, TargetName)
    /\ Entries("IF") = <<<<"IF", "snapshot">>, <<"IF", "snapshot">>>>

(* C2: when the target is absent at the probe the run creates the target   *)
(* directly from the query result and neither creates a staging table nor  *)
(* runs an ALTER, the reconciler or a MERGE; it does not fail; afterwards  *)
(* it assigns partition_values, from the distinct partition values of the  *)
(* new target, exactly when partitionBy is configured.                     *)
C2_SnapshotPath ==
    SnapshotRun =>
       /\ pc # Failed
       /\ \A i \in DOMAIN executed :
             executed[i][1] \in {"SET_target_exists", "IF", "CREATE TABLE",
                                 "SET_partition_values"}
       /\ ~TableExists(tables, Staging)
       /\ Ran("CREATE TABLE") => Entries("CREATE TABLE") = <<<<"CREATE TABLE", TargetName>>>>
       /\ Ran("SET_partition_values") =>
             /\ Partitioned
             /\ executed[Len(executed)] = <<"SET_partition_values", TargetName>>
             /\ executed[Len(executed) - 1] = <<"IF", "snapshot">>
             /\ PartitionValuesAre(TargetName)
       /\ Done =>
             /\ Ran("CREATE TABLE")
             /\ TableExists(tables, TargetName)
             /\ Ran("SET_partition_values") <=> Partitioned
             /\ ~Partitioned => IsNull(vars["partition_values"])

C2_Witness ==
    /\ runs > 0 /\ Done
    /\ SnapshotRun
    /\ Partitioned
    /\ ~IsNull(vars["partition_values"])
    /\ Ran("CREATE TABLE")

(* The order of the target-present branch. *)
IncrementalOrder ==
    <<<<"SET_target_exists", TargetName>>,
      <<"CREATE OR REPLACE TABLE", Staging>>,
      <<"CREATE_TABLE_IF_NOT_EXISTS", TargetName>>,
      <<"SET_alter_statements", TargetName>>,
      <<"EXECUTE_schemaSQL_INTO", TargetName>>>>
    \o (IF Partitioned THEN <<<<"SET_partition_values", Staging>>>> ELSE <<>>)
    \o <<<<"SET_merge_sql", Staging>>, <<"MERGE", Staging>>>>

MainEntries ==
    SelectSeq(executed, LAMBDA e : e[1] \notin {"IF", "ALTER", "ERROR"})

(* C3: when the target is present at the probe the statements run in the   *)
(* order: staging table created or replaced from the query with a 12 hour  *)
(* expiration, CREATE TABLE IF NOT EXISTS target, the ALTER statements,    *)
(* the reconciler, partition_values from staging (only with a partition    *)
(* column), MERGE; each starts after its predecessor completed, and MERGE  *)
(* is the last statement of the branch.                                    *)
C3_IncrementalOrder ==
    IncrementalRun =>
       /\ IsPrefix(MainEntries, IncrementalOrder)
       /\ \A i \in DOMAIN executed :
             executed[i][1] = "ALTER" =>
                /\ \E j \in 1..(i - 1) : executed[j][1] = "SET_alter_statements"
                /\ \A j \in 1..(i - 1) : executed[j][1] # "EXECUTE_schemaSQL_INTO"
       /\ Ran("CREATE OR REPLACE TABLE") =>
             vars["create_sql"] =
                Val("create", <<"CREATE OR REPLACE TABLE", Staging,
                                "expiration_timestamp=TIMESTAMP_ADD(CURRENT_TIMESTAMP(), INTERVAL "
                                \o ToString(12) \o " HOUR)">>)
       /\ Ran("MERGE") =>
             IF Done THEN script[Len(script) - 1].op = "EXECUTE_merge_sql"
             ELSE script[pc - 1].op = "EXECUTE_merge_sql" /\ script[pc].op = "END_IF"
       /\ (runs > 0 /\ Done) => MainEntries = IncrementalOrder

C3_Witness ==
    /\ runs > 0 /\ Done
    /\ IncrementalRun
    /\ Partitioned
    /\ Ran("ALTER")
    /\ executed[Len(executed)] = <<"MERGE", Staging>>

KeyOf(r) == [i \in DOMAIN config.uniqueKeys |-> r[config.uniqueKeys[i]]]
KeysOf(rows) == {KeyOf(r) : r \in rows}

(* C7: a run against an existing target removes no row: every unique-key   *)
(* value the target held when the run began is in the target at every      *)
(* later point of the run, also when the staging table lacks that key; the *)
(* MERGE text has a WHEN MATCHED UPDATE and a WHEN NOT MATCHED INSERT      *)
(* branch and no DELETE branch.                                            *)
C7_NoRowRemoved ==
    /\ before.exists => KeysOf(before.rows) \subseteq KeysOf(tables[TargetName].rows)
    /\ vars["merge_sql"].k = "sql" =>
          LET sql == vars["merge_sql"].v
          IN /\ ~ParseMerge(sql).hasDelete
             /\ Cardinality({i \in DOMAIN sql : sql[i].lit \in
                   {" WHEN MATCHED THEN UPDATE SET ", ") WHEN MATCHED THEN UPDATE SET "}}) = 1
             /\ Cardinality({i \in DOMAIN sql :
                   sql[i].lit = " WHEN NOT MATCHED THEN INSERT ("}) = 1
             /\ \A i \in DOMAIN sql : sql[i].lit # " WHEN NOT MATCHED BY SOURCE THEN DELETE"

(* A MERGE has run over a staging table that lacks a key of the target and *)
(* holds another key of it.                                                *)
C7_Witness ==
    /\ runs > 0 /\ Done
    /\ IncrementalRun
    /\ Ran("MERGE")
    /\ KeysOf(before.rows) \ KeysOf(tables[Staging].rows) # {}
    /\ KeysOf(before.rows) \cap KeysOf(tables[Staging].rows) # {}

AlterColumns == {executed[i][2] : i \in {j \in DOMAIN executed : executed[j][1] = "ALTER"}}

(* C8: the ALTER statements of a run are exactly one ADD COLUMN on the     *)
(* target per column name of the staging catalog that the target catalog   *)
(* lacks, none when there is no such name; the columns the target had when *)
(* the run began keep their position, name and type.                       *)
C8_AdditiveOnly ==
    /\ before.exists => IsPrefix(before.cols, tables[TargetName].cols)
    /\ (At("EXECUTE_alter_statements") /\ AltersDone = 0) =>
          LET new == ColNames(tables[Staging].cols) \ ColNames(tables[TargetName].cols)
              a == vars["alter_statements"]
          IN IF new = {} THEN IsNull(a)
             ELSE /\ a.k = "array"
                  /\ Len(a.v) = Cardinality(new)
                  /\ {a.v[i][4] : i \in DOMAIN a.v} = new
                  /\ \A i \in DOMAIN a.v :
                        /\ a.v[i][1] = "ALTER TABLE " /\ a.v[i][2] = TargetName
                        /\ a.v[i][3] = " ADD COLUMN "
                        /\ Col(a.v[i][4], a.v[i][6]) \in SeqToSet(tables[Staging].cols)
    /\ AltersDone = Cardinality(AlterColumns)
    /\ AlterColumns \cap ColNames(before.cols) = {}
    /\ Ran("EXECUTE_schemaSQL_INTO") =>
          /\ AlterColumns = ColNames(tables[Staging].cols) \ ColNames(before.cols)
          /\ ColNames(tables[TargetName].cols) =
                ColNames(before.cols) \cup ColNames(tables[Staging].cols)

(* A run has added a column while another column of the staging table has  *)
(* the name of a target column and a different type.                       *)
C8_Witness ==
    /\ runs > 0 /\ Done
    /\ IncrementalRun
    /\ Ran("ALTER")
    /\ \E c \in SeqToSet(tables[Staging].cols) :
          /\ c.name \in ColNames(before.cols)
          /\ c \notin SeqToSet(before.cols)

----------------------------------------------------------------------------
(* The generators applied to drawn inputs, under a clock that advances *)

MaxLen == 3
MaxClock == 2

(* A switch that routes every incremental model to the incremental pattern *)
createModel_IgnoreFullRefresh(target, factoryConfig, mergedConfig, now) ==
    IF factoryConfig.type = "incremental"
    THEN LET g == IncrementalGenerate(target, factoryConfig.uniqueKeys, mergedConfig, now)
         IN [preSQL |-> g.preSQL, postSQL |-> g.postSQL]
    ELSE IF factoryConfig.type = "table" THEN SnapshotGenerate(target, mergedConfig, now)
    ELSE IF factoryConfig.type = "view" THEN ViewGenerate(target, mergedConfig, now)
    ELSE [preSQL |-> <<>>, postSQL |-> <<>>]

(* The switch of create(): the pattern a configuration is routed to. *)
createModel(target, factoryConfig, mergedConfig, now) ==
    IF factoryConfig.type = "incremental"
    THEN IF factoryConfig.fullRefresh
         THEN SnapshotGenerate(target, mergedConfig, now)
         ELSE LET g == IncrementalGenerate(target, factoryConfig.uniqueKeys, mergedConfig, now)
              IN [preSQL |-> g.preSQL, postSQL |-> g.postSQL]
    ELSE IF factoryConfig.type = "table" THEN SnapshotGenerate(target, mergedConfig, now)
    ELSE IF factoryConfig.type = "view" THEN ViewGenerate(target, mergedConfig, now)
    ELSE [preSQL |-> <<>>, postSQL |-> <<>>]

Alphabet == {"a", "B", "_", "1", "(", ")", " "}
DateCreatedAt == <<"D","A","T","E","(","c","r","e","a","t","e","d","_","a","t",")">>
DayColumn == <<"d", "a", "y">>

RECURSIVE SeqsUpTo(_, _)
(* the sequences over S of length 1..n *)
SeqsUpTo(S, n) ==
    IF n = 0 THEN {}
    ELSE LET shorter == SeqsUpTo(S, n - 1)
         IN {<<c>> : c \in S} \cup shorter \cup {Append(t, c) : t \in shorter, c \in S}

PartitionExpressions == SeqsUpTo(Alphabet, MaxLen) \cup {DateCreatedAt, DayColumn}

ColumnPool == <<Col("id", "INT64"), Col("day", "DATE"), Col("a", "STRING"),
                Col("a", "INT64"), Col("b", "STRING")>>

(* Catalogs in ordinal order, one column per name. *)
Catalogs ==
    {c \in {SelectSeq(ColumnPool, LAMBDA col : col \in S) : S \in SUBSET SeqToSet(ColumnPool)} :
        /\ c # <<>>
        /\ \A i, j \in DOMAIN c : c[i].name = c[j].name => i = j}

KeyLists == {<<"id">>, <<"id", "day">>, <<"day", "id">>}

GenInput(kind, input) == [phase |-> "input", kind |-> kind, input |-> input,
                          output |-> <<>>, again |-> <<>>, at |-> 0, at2 |-> 0]

QualifyInputs == {GenInput("qualify", [expr |-> e]) : e \in PartitionExpressions}

MergeInputs ==
    {GenInput("merge", [cfg |-> [Config("incremental", k, e) EXCEPT
                                    !.timestampInStagingName = ts]]) :
        k \in KeyLists, e \in {<<>>, DayColumn, DateCreatedAt}, ts \in BOOLEAN}

ReconcileInputs ==
    {GenInput("reconcile", [target |-> t, staging |-> g, keys |-> k]) :
        t \in Catalogs, g \in Catalogs, k \in KeyLists}

GenerateInputs ==
    {GenInput("generate", [cfg |-> [Config(ty, <<"id">>, e) EXCEPT
                                       !.timestampInStagingName = ts,
                                       !.fullRefresh = fr, !.materialized = mv]]) :
        ty \in {"incremental", "table", "view"}, e \in {<<>>, DayColumn},
        ts \in BOOLEAN, fr \in BOOLEAN, mv \in BOOLEAN}

RunIdle ==
    /\ config = Config("incremental", <<"id">>, <<>>)
    /\ tables = <<>>
    /\ script = <<>>
    /\ pc = 0
    /\ vars = NoVars
    /\ declared = {}
    /\ executed = <<>>
    /\ probe = <<>>
    /\ before = NoTable
    /\ runs = 0
    /\ failure = NoFailure

InitGen ==
    /\ gen \in QualifyInputs \cup MergeInputs \cup ReconcileInputs \cup GenerateInputs
    /\ clock = 0
    /\ factory = FactoryIdle
    /\ RunIdle

GenStaging(cfg, now) == getStagingTableName(Target, "Staging", cfg.timestampInStagingName, now)

(* MergeBuilder._generatePartitionFilter on a partition expression *)
Qualify ==
    /\ gen.phase = "input" /\ gen.kind = "qualify"
    /\ gen' = [gen EXCEPT !.phase = "done", !.at = clock,
                  !.output = generatePartitionFilter(
                                 getStagingTableName(Target, "Staging", FALSE, clock),
                                 gen.input.expr)]
    /\ UNCHANGED <<clock, factory>>
    /\ UNCHANGED runVars

(* IncrementalPattern.generate: the merge operation and the postSQL that   *)
(* formats its template                                                    *)
Synthesize ==
    /\ gen.phase = "input" /\ gen.kind = "merge"
    /\ LET cfg == gen.input.cfg
           mergeConfig == [uniqueKeys |-> cfg.uniqueKeys, partitionBy |-> cfg.partitionBy,
                           clusterBy |-> cfg.clusterBy, description |-> cfg.description]
       IN gen' = [gen EXCEPT !.phase = "done", !.at = clock,
                     !.output = [mergeOp |-> generateMergeOperation(Target,
                                                 GenStaging(cfg, clock), mergeConfig),
                                 postSQL |-> IncrementalGenerate(Target, cfg.uniqueKeys,
                                                                 cfg, clock).postSQL]]
    /\ UNCHANGED <<clock, factory>>
    /\ UNCHANGED runVars

(* The queries of generateSchemaSQL and generateSchemaMigrationSQL over a  *)
(* target and a staging catalog                                            *)
ReconcileCatalogs ==
    /\ gen.phase = "input" /\ gen.kind = "reconcile"
    /\ LET stagingTable == getStagingTableName(Target, "Staging", FALSE, clock)
           q == generateSchemaSQL(Target, stagingTable, gen.input.keys)
           m == generateSchemaMigrationSQL(Target, stagingTable)
           tbls == [n \in {q.target, q.staging} |->
                       IF n = q.target THEN Table(gen.input.target, {})
                       ELSE Table(gen.input.staging, {})]
       IN gen' = [gen EXCEPT !.phase = "done", !.at = clock,
                     !.output = [schema |-> RunSchemaSQL(tbls, q.target, q.staging,
                                                         q.keyColumns, q.joinCondition),
                                 migration |-> RunSchemaMigrationQuery(tbls, m.alter,
                                                                       m.staging, m.target)]]
    /\ UNCHANGED <<clock, factory>>
    /\ UNCHANGED runVars

(* A first generation for a configuration *)
Generate ==
    /\ gen.phase = "input" /\ gen.kind = "generate"
    /\ gen' = [gen EXCEPT !.phase = "first", !.at = clock,
                  !.output = createModel(Target, gen.input.cfg, gen.input.cfg, clock)]
    /\ UNCHANGED <<clock, factory>>
    /\ UNCHANGED runVars

(* A second generation for the same configuration and target *)
GenerateAgain ==
    /\ gen.phase = "first" /\ gen.kind = "generate"
    /\ gen' = [gen EXCEPT !.phase = "done", !.at2 = clock,
                  !.again = createModel(Target, gen.input.cfg, gen.input.cfg, clock)]
    /\ UNCHANGED <<clock, factory>>
    /\ UNCHANGED runVars

(* Time passes between calls. *)
Tick ==
    /\ clock < MaxClock
    /\ clock' = clock + 1
    /\ UNCHANGED <<gen, factory>>
    /\ UNCHANGED runVars

NextGen ==
    \/ Qualify
    \/ Synthesize
    \/ ReconcileCatalogs
    \/ Generate
    \/ GenerateAgain
    \/ Tick

SpecGen == InitGen /\ [][NextGen]_vars_all

----------------------------------------------------------------------------
(* Properties of the generators *)

Finished(kind) == gen.kind = kind /\ gen.phase = "done"

(* Position of the k-th slot of a template. *)
SlotIndex(template, k) ==
    CHOOSE i \in DOMAIN template : template[i] = Slot /\ SlotsUpTo(template, i) = k

(* The text that stands directly before each slot, in slot order. *)
SlotContexts(template) ==
    [k \in 1..SlotCount(template) |-> template[SlotIndex(template, k) - 1]]

FormatStmts(sql) == SelectSeq(sql, LAMBDA st : st.op = "SET_merge_sql")

(* C4: the merge template of the incremental pattern has six slots with a  *)
(* partition expression and five without; with six, the text               *)
(* AND <target-qualified expression> IN (%s) follows the join-condition    *)
(* slot directly; postSQL holds one FORMAT of that template whose          *)
(* arguments are as many as the slots and are, in order, the staging table,*)
(* join_condition, partition_values (six-slot form only), update_set,      *)
(* insert_cols, insert_vals, each in the slot of its clause.               *)
C4_MergeSlots ==
    Finished("merge") =>
       LET cfg == gen.input.cfg
           op == gen.output.mergeOp
           t == op.mergeSQL
           f == FormatStmts(gen.output.postSQL)
           six == Len(cfg.partitionBy) > 0
       IN /\ SlotCount(t) = IF six THEN 6 ELSE 5
          /\ SlotContexts(t) =
                IF six
                THEN <<" target USING (SELECT * FROM ", ") source ON ", " IN (",
                       ") WHEN MATCHED THEN UPDATE SET ", " WHEN NOT MATCHED THEN INSERT (",
                       ") VALUES (">>
                ELSE <<" target USING (SELECT * FROM ", ") source ON ",
                       " WHEN MATCHED THEN UPDATE SET ", " WHEN NOT MATCHED THEN INSERT (",
                       ") VALUES (">>
          /\ six => SubSeq(t, SlotIndex(t, 2) + 1, SlotIndex(t, 2) + 4) =
                       <<" AND ", Str(op.partitionFilter.targetExpression), " IN (", Slot>>
          /\ ~six => \A i \in DOMAIN t : t[i] # " IN ("
          /\ Len(f) = 1
          /\ f[1].y = <<t>>
          /\ f[1].a = FullName(GenStaging(cfg, gen.at))
          /\ 1 + Len(f[1].x) = SlotCount(t)
          /\ f[1].x = IF six
                      THEN <<"join_condition", "partition_values", "update_set",
                             "insert_cols", "insert_vals">>
                      ELSE <<"join_condition", "update_set", "insert_cols", "insert_vals">>

(* The six-slot form for the partition expression DATE(created_at). *)
C4_Witness ==
    /\ Finished("merge")
    /\ gen.input.cfg.partitionBy = DateCreatedAt
    /\ SlotCount(gen.output.mergeOp.mergeSQL) = 6
    /\ Len(FormatStmts(gen.output.postSQL)[1].x) = 5

(* C5: for a target catalog T, a staging catalog S and a unique-key list   *)
(* K, the migration query names exactly the columns of S whose name is not *)
(* in T (a same-named column of another type is not new), update_set       *)
(* assigns exactly the names of T and S that are not keys, insert_cols and *)
(* insert_vals list exactly the names of T and S, and the join condition   *)
(* is target.k = source.k for each key in key order with AND between.      *)
C5_Reconciler ==
    Finished("reconcile") =>
       LET T == ColNames(gen.input.target)
           S == ColNames(gen.input.staging)
           K == gen.input.keys
           r == gen.output.schema
           m == gen.output.migration
           names(val, j) == {val.v[i][j] : i \in DOMAIN val.v}
           exactly(val, j, want) ==
               IF want = {} THEN IsNull(val)
               ELSE names(val, j) = want /\ Len(val.v) = Cardinality(want)
           jc == r.join_condition.v
       IN /\ exactly(m, 4, S \ T)
          /\ exactly(r.update_set, 1, (T \cap S) \ SeqToSet(K))
          /\ ~IsNull(r.update_set) =>
                \A i \in DOMAIN r.update_set.v :
                   r.update_set.v[i] = <<r.update_set.v[i][1], " = source.", r.update_set.v[i][1]>>
          /\ exactly(r.insert_cols, 1, T \cap S)
          /\ exactly(r.insert_vals, 2, T \cap S)
          /\ ~IsNull(r.insert_cols) =>
                /\ Len(r.insert_cols.v) = Len(r.insert_vals.v)
                /\ \A i \in DOMAIN r.insert_cols.v :
                      r.insert_vals.v[i] = <<"source.", r.insert_cols.v[i][1]>>
          /\ Len(jc) = 6 * Len(K) - 1
          /\ \A i \in DOMAIN K :
                SubSeq(jc, 6 * i - 5, 6 * i - 1) = <<"target.", K[i], " = ", "source.", K[i]>>
          /\ \A i \in 1..(Len(K) - 1) : jc[6 * i] = " AND "

(* The staging catalog brings a new column and a column whose name the     *)
(* target has with another type; two keys.                                 *)
C5_Witness ==
    /\ Finished("reconcile")
    /\ Len(gen.input.keys) = 2
    /\ ColNames(gen.input.staging) \ ColNames(gen.input.target) # {}
    /\ \E c \in SeqToSet(gen.input.staging) :
          c.name \in ColNames(gen.input.target) /\ c \notin SeqToSet(gen.input.target)
    /\ ~IsNull(gen.output.migration)
    /\ ~IsNull(gen.output.schema.update_set)

RECURSIVE Flatten(_)
Flatten(ss) == IF ss = <<>> THEN <<>> ELSE Head(ss) \o Flatten(Tail(ss))

Lower == {"a","b","c","d","e","f","g","h","i","j","k","l","m",
          "n","o","p","q","r","s","t","u","v","w","x","y","z"}
Upper == {"A","B","C","D","E","F","G","H","I","J","K","L","M",
          "N","O","P","Q","R","S","T","U","V","W","X","Y","Z"}
Digits == {"0","1","2","3","4","5","6","7","8","9"}
Word == Lower \cup Upper \cup Digits \cup {"_"}

(* An identifier token starts at i: a letter or underscore that no earlier *)
(* token of the same run of word characters covers.                        *)
TokenStart(cs, i) ==
    /\ cs[i] \in Lower \cup Upper \cup {"_"}
    /\ \A j \in 1..(i - 1) : (\A k \in j..(i - 1) : cs[k] \in Word) => cs[j] \in Digits

TokenAt(cs, i) ==
    SubSeq(cs, i, CHOOSE j \in i..Len(cs) :
                     /\ \A k \in i..j : cs[k] \in Word
                     /\ j = Len(cs) \/ cs[j + 1] \notin Word)

(* A token without a lower-case letter (it equals its upper-case form). *)
AllUpper(token) == \A k \in DOMAIN token : token[k] \notin Lower

(* The expression with target. before every token that is not all-upper. *)
TokensQualified(cs) ==
    Flatten([i \in DOMAIN cs |->
                IF TokenStart(cs, i) /\ ~AllUpper(TokenAt(cs, i))
                THEN <<"t","a","r","g","e","t",".", cs[i]>> ELSE <<cs[i]>>])

HasParenOrSpace(cs) == \E i \in DOMAIN cs : cs[i] = "(" \/ cs[i] = " "

(* C6 as stated: for every partition expression, bare column or not, no    *)
(* all-uppercase token is qualified and every other identifier token is    *)
(* qualified exactly once.                                                 *)
C6_AsStated ==
    Finished("qualify") => gen.output.targetExpression = TokensQualified(gen.input.expr)

(* C6: for a partition expression that contains a parenthesis or a space,  *)
(* no token without a lower-case letter is qualified and every other       *)
(* identifier token is qualified exactly once; a partition expression      *)
(* without parenthesis and space is prefixed with target. once as a whole, *)
(* whatever its case; DATE(created_at) yields DATE(target.created_at).     *)
C6_Qualification ==
    Finished("qualify") =>
       /\ HasParenOrSpace(gen.input.expr) =>
             gen.output.targetExpression = TokensQualified(gen.input.expr)
       /\ ~HasParenOrSpace(gen.input.expr) =>
             gen.output.targetExpression = <<"t","a","r","g","e","t",".">> \o gen.input.expr
       /\ gen.input.expr = DateCreatedAt =>
             Str(gen.output.targetExpression) = "DATE(target.created_at)"

(* A bare all-uppercase column has been qualified. *)
C6_Witness ==
    /\ Finished("qualify")
    /\ gen.input.expr = <<"B">>
    /\ Str(gen.output.targetExpression) = "target.B"

IncrementalRouted(cfg) == cfg.type = "incremental" /\ ~cfg.fullRefresh
ReadsMillis(cfg) == IncrementalRouted(cfg) /\ cfg.timestampInStagingName
SameDay(t1, t2) == t1 \div MsPerDay = t2 \div MsPerDay

(* C9 as stated: two generations from one configuration and target yield   *)
(* the same preSQL and postSQL whenever they happen.                       *)
C9_AsStated ==
    Finished("generate") =>
       gen.output.preSQL = gen.again.preSQL /\ gen.output.postSQL = gen.again.postSQL

(* C9: two generations from one configuration and target yield the same    *)
(* postSQL when the staging name carries no timestamp (always for          *)
(* snapshot and view patterns), and then the same preSQL exactly when both *)
(* happen on one UTC date; with timestampInStagingName on the incremental  *)
(* pattern both texts are the same exactly when the clock reads the same   *)
(* millisecond.                                                            *)
C9_Determinism ==
    Finished("generate") =>
       LET cfg == gen.input.cfg
           samePre == gen.output.preSQL = gen.again.preSQL
           samePost == gen.output.postSQL = gen.again.postSQL
       IN IF ReadsMillis(cfg)
          THEN (samePre <=> gen.at = gen.at2) /\ (samePost <=> gen.at = gen.at2)
          ELSE samePost /\ (samePre <=> SameDay(gen.at, gen.at2))

(* Two generations at different moments of one day, the same text. *)
C9_Witness ==
    /\ Finished("generate")
    /\ ~ReadsMillis(gen.input.cfg)
    /\ IncrementalRouted(gen.input.cfg)
    /\ gen.at # gen.at2 /\ SameDay(gen.at, gen.at2)
    /\ gen.output = gen.again

----------------------------------------------------------------------------
(* ConfigValidator *)

ClusterByMax == 4
BeginDaysBackWarn == 365

(* errors.push and warnings.push of one validation step *)
Errors(e) == [errors |-> e, warnings |-> <<>>]
Warnings(w) == [errors |-> <<>>, warnings |-> w]
Both(r1, r2) == [errors |-> r1.errors \o r2.errors, warnings |-> r1.warnings \o r2.warnings]
When(cond, msg) == IF cond THEN <<msg>> ELSE <<>>

(* A validator that requires the type only *)
validateRequiredProperties_TypeOnly(cfg) ==
    IF cfg.type = "" THEN Errors(<<"Missing required property type">>)
    ELSE Errors(When(cfg.type \notin {"incremental", "table", "view"}, "Invalid type value"))

validateRequiredProperties(cfg) ==
    IF cfg.type = "" THEN Errors(<<"Missing required property type">>)
    ELSE Errors(When(cfg.type \notin {"incremental", "table", "view"}, "Invalid type value")
                \o When(cfg.type = "incremental"
                        /\ (cfg.uniqueKeys.k = "absent" \/ length(cfg.uniqueKeys) = 0),
                        "Incremental models require uniqueKeys"))

(* The typeof tests on stagingDataset, fullRefresh and                     *)
(* timestampInStagingName cannot fail on the configurations modelled.      *)
validateIncrementalProperties(cfg) ==
    [errors |->
        (IF cfg.uniqueKeys.k # "absent"
         THEN IF ~isArray(cfg.uniqueKeys)
              THEN <<"uniqueKeys must be an array of column names">>
              ELSE When(someNotString(cfg.uniqueKeys), "All uniqueKeys must be strings")
         ELSE <<>>)
        \o When(cfg.begin_daysBack # Undefined
                /\ (~isInteger(cfg.begin_daysBack) \/ cfg.begin_daysBack[1] < 0),
                "begin_daysBack must be a non-negative integer")
        \o When(cfg.end_daysBack # Undefined
                /\ (~isInteger(cfg.end_daysBack) \/ cfg.end_daysBack[1] < 0),
                "end_daysBack must be a non-negative integer"),
     warnings |->
        When(cfg.begin_daysBack # Undefined /\ greater(cfg.begin_daysBack, BeginDaysBackWarn),
             "begin_daysBack > 365 days may impact performance and costs")]

(* config.begin_daysBack || config.end_daysBack *)
daysBackGiven(cfg) ==
    \/ cfg.begin_daysBack # Undefined /\ ~isZero(cfg.begin_daysBack)
    \/ cfg.end_daysBack # Undefined /\ ~isZero(cfg.end_daysBack)

validateTableProperties(cfg) ==
    Warnings(When(cfg.uniqueKeys.k # "absent", "uniqueKeys property is ignored for table type")
             \o When(daysBackGiven(cfg),
                     "begin_daysBack/end_daysBack properties are ignored for table type"))

(* materialized and autoRefresh are booleans and refreshInterval is absent *)
(* in the configurations modelled.                                         *)
validateViewProperties(cfg) ==
    Warnings(When(cfg.uniqueKeys.k # "absent", "uniqueKeys property is ignored for view type")
             \o When(daysBackGiven(cfg),
                     "begin_daysBack/end_daysBack properties are ignored for view type")
             \o When(cfg.autoRefresh /\ ~cfg.materialized,
                     "autoRefresh only applies to materialized views"))

validateTypeSpecificProperties(cfg) ==
    IF cfg.type = "incremental" THEN validateIncrementalProperties(cfg)
    ELSE IF cfg.type = "table" THEN validateTableProperties(cfg)
    ELSE IF cfg.type = "view" THEN validateViewProperties(cfg)
    ELSE Errors(<<>>)

(* A validator that puts no limit on the number of clustering columns *)
validateCommonProperties_NoLimit(cfg) ==
    Errors(IF cfg.clusterBy.k # "absent"
           THEN IF ~isArray(cfg.clusterBy)
                THEN <<"clusterBy must be an array of column names">>
                ELSE When(someNotString(cfg.clusterBy),
                          "All clusterBy columns must be strings")
           ELSE <<>>)

(* partitionBy and description are strings in the configurations modelled. *)
validateCommonProperties(cfg) ==
    Errors(IF cfg.clusterBy.k # "absent"
           THEN IF ~isArray(cfg.clusterBy)
                THEN <<"clusterBy must be an array of column names">>
                ELSE When(length(cfg.clusterBy) > ClusterByMax,
                          "clusterBy can have maximum 4 columns")
                     \o When(someNotString(cfg.clusterBy),
                             "All clusterBy columns must be strings")
           ELSE <<>>)

(* The requirements of accepted_values and relationships checks are not    *)
(* modelled: no configuration modelled holds one.                          *)
validateDataQualityAssertion(assertion) ==
    IF assertion.type = "" THEN <<"Missing required property type">>
    ELSE IF assertion.type \notin {"not_null", "unique_key", "accepted_values", "relationships"}
    THEN <<"Invalid type">>
    ELSE IF assertion.type = "not_null"
    THEN When(assertion.column = "" /\ assertion.columns.k = "absent",
              "not_null assertion requires column or columns")
    ELSE IF assertion.type = "unique_key"
    THEN IF assertion.columns.k = "absent"
         THEN <<"unique_key assertion requires columns">>
         ELSE When(~isArray(assertion.columns), "unique_key columns must be an array")
    ELSE <<>>

(* The requirements of freshness and percentage checks are not modelled:   *)
(* no configuration modelled holds one.                                    *)
validateBusinessRuleAssertion(assertion) ==
    IF assertion.type = "" THEN <<"Missing required property type">>
    ELSE IF assertion.type \notin {"freshness", "row_count", "percentage"}
    THEN <<"Invalid type">>
    ELSE IF assertion.type = "row_count"
    THEN When(assertion.minRows # Undefined
              /\ (~isInteger(assertion.minRows) \/ assertion.minRows[1] < 0),
              "minRows must be a non-negative integer")
         \o When(assertion.maxRows # Undefined
                 /\ (~isInteger(assertion.maxRows) \/ assertion.maxRows[1] < 0),
                 "maxRows must be a non-negative integer")
         \o When(assertion.minRows = Undefined /\ assertion.maxRows = Undefined,
                 "row_count assertion requires at least minRows or maxRows")
    ELSE <<>>

RECURSIVE validateEach(_, _)
(* assertions.data_quality.forEach(...), assertions.business_rules.forEach(...) *)
validateEach(checks, businessRules) ==
    IF checks = <<>> THEN <<>>
    ELSE (IF businessRules THEN validateBusinessRuleAssertion(Head(checks))
          ELSE validateDataQualityAssertion(Head(checks)))
         \o validateEach(Tail(checks), businessRules)

validateAssertions(assertions) ==
    Errors(validateEach(assertions.data_quality, FALSE)
           \o validateEach(assertions.business_rules, TRUE))

(* One warning for every property the validator does not know. *)
checkUnknownProperties(cfg) ==
    Warnings([i \in 1..Cardinality(cfg.unknown) |-> "Unknown property will be ignored"])

validateFactoryConfig_FirstOnly(cfg) ==
    LET r == Both(Both(Both(validateRequiredProperties(cfg),
                            validateTypeSpecificProperties(cfg)),
                       validateCommonProperties(cfg)),
                  IF cfg.assertions.present THEN validateAssertions(cfg.assertions)
                  ELSE Errors(<<>>))
    IN [isValid |-> Len(r.errors) = 0,
        errors |-> IF Len(r.errors) > 0 THEN <<Head(r.errors)>> ELSE <<>>,
        warnings |-> r.warnings]

validateFactoryConfig(cfg) ==
    LET r == Both(Both(Both(Both(validateRequiredProperties(cfg),
                                 validateTypeSpecificProperties(cfg)),
                            validateCommonProperties(cfg)),
                       IF cfg.assertions.present THEN validateAssertions(cfg.assertions)
                       ELSE Errors(<<>>)),
                  checkUnknownProperties(cfg))
    IN [isValid |-> Len(r.errors) = 0, errors |-> r.errors, warnings |-> r.warnings]

----------------------------------------------------------------------------
(* AssertionsManager and DateFilter *)

(* The pattern call of create() throws: only the incremental pattern       *)
(* builds assertion views.                                                 *)
patternThrows(cfg) ==
    /\ cfg.type = "incremental" /\ ~cfg.fullRefresh
    /\ cfg.assertions.present /\ generateAssertionViewsThrows(cfg)

(* assert(name) once per check type *)
generateDataQualityAssertions(target, checks) ==
    {tableIdForName(target) \o "_data_quality_" \o checks[i].type : i \in DOMAIN checks}

generateBusinessRulesAssertions(target, checks) ==
    {tableIdForName(target) \o "_business_rules_" \o checks[i].type : i \in DOMAIN checks}

generateAssertions(target, cfg) ==
    IF cfg.assertions.present
    THEN generateDataQualityAssertions(target, cfg.assertions.data_quality)
         \cup generateBusinessRulesAssertions(target, cfg.assertions.business_rules)
    ELSE {}

(* The text of a number in a template literal. *)
numberText(x) == ToString(x[1]) \o (IF Len(x) = 2 THEN ".5" ELSE "")

DateFilterGenerate(dateColumn, useVariable, fullRefresh, begin_daysBack, end_daysBack) ==
    IF fullRefresh THEN "1=1"
    ELSE IF useVariable
    THEN "DATE(" \o dateColumn \o ") BETWEEN DATE_SUB(CURRENT_DATE(), INTERVAL "
         \o numberText(begin_daysBack) \o " DAY) AND DATE_SUB(CURRENT_DATE(), INTERVAL "
         \o numberText(end_daysBack) \o " DAY)"
    ELSE "DATE(" \o dateColumn \o ") >= " \o dateSub(DefaultBeginDaysBack)

----------------------------------------------------------------------------
(* The factory: create() and the date filters *)

MaxCalls == 2

setModelContext(contexts, target, context) ==
    [contexts EXCEPT ![target] = [present |-> TRUE, fullRefresh |-> context.fullRefresh,
                                  begin_daysBack |-> context.begin_daysBack,
                                  end_daysBack |-> context.end_daysBack]]

(* modelContexts.get(targetTable) || {}; a null key is never stored. *)
getModelContext(contexts, target) ==
    IF target \in DOMAIN contexts THEN contexts[target] ELSE NoContext

(* x || d for a number: d when x is undefined or 0. *)
OrValue(x, d) == IF x = Undefined \/ isZero(x) THEN <<d>> ELSE x

(* create(target, factoryConfig): the factory state after the call. *)
create(f, target, cfg, now) ==
    LET validation == validateFactoryConfig(cfg)
        snapshot == [currentModelContext |-> f.currentModelContext,
                     modelContexts |-> f.modelContexts, registered |-> f.registered]
        called == [target |-> target, cfg |-> cfg, threw |-> TRUE,
                   errors |-> validation.errors, warnings |-> validation.warnings,
                   produced |-> FALSE, model |-> NoModel, before |-> snapshot]
        begin_daysBack == OrValue(cfg.begin_daysBack, DefaultBeginDaysBack)
        end_daysBack == OrValue(cfg.end_daysBack, DefaultEndDaysBack)
        updated == [f EXCEPT
                      !.calls = @ + 1,
                      !.currentModelContext =
                          [fullRefresh |-> cfg.fullRefresh, targetTable |-> target,
                           begin_daysBack |-> begin_daysBack, end_daysBack |-> end_daysBack],
                      !.modelContexts = setModelContext(@, target,
                          [fullRefresh |-> cfg.fullRefresh, begin_daysBack |-> begin_daysBack,
                           end_daysBack |-> end_daysBack])]
    IN IF ~validation.isValid
       THEN [f EXCEPT !.calls = @ + 1, !.last = called]
       ELSE IF patternThrows(cfg)
       THEN [updated EXCEPT !.last = called]
       ELSE [updated EXCEPT
                !.registered = @ \cup generateAssertions(target, cfg),
                !.results = @ \cup {[target |-> target, cfg |-> cfg]},
                !.last = [called EXCEPT !.threw = FALSE, !.produced = TRUE,
                                        !.model = createModel(target, MergedConfig(cfg),
                                                              MergedConfig(cfg), now)]]

(* The module-level dateFilter(dateColumn, useVariable) *)
dateFilter(f, useVariable) ==
    LET context == getModelContext(f.modelContexts, f.currentModelContext.targetTable)
    IN DateFilterGenerate("updated_at", useVariable, context.fullRefresh,
                          OrValue(context.begin_daysBack, DefaultBeginDaysBack),
                          OrValue(context.end_daysBack, DefaultEndDaysBack))

(* result.dateFilter(dateColumn, useVariable) of the result create()       *)
(* returned for target: the context is looked up when the filter is called. *)
resultDateFilter(f, target, useVariable) ==
    LET context == getModelContext(f.modelContexts, target)
    IN DateFilterGenerate("updated_at", useVariable, context.fullRefresh,
                          IF context.begin_daysBack # Undefined THEN context.begin_daysBack
                          ELSE <<DefaultBeginDaysBack>>,
                          IF context.end_daysBack # Undefined THEN context.end_daysBack
                          ELSE <<DefaultEndDaysBack>>)

CheckColumns == {Absent, ArrayOf(<<"id">>), StringOf("id")}

FactoryConfigs ==
    {FactoryConfig([Config(ty, k, <<>>) EXCEPT !.fullRefresh = fr], {}) :
        ty \in {"incremental", "table", "view", "custom"},
        k \in {<<>>, <<"id">>}, fr \in BOOLEAN}
    \cup {FactoryConfig([Config("incremental", <<"id">>, DayColumn) EXCEPT
                            !.begin_daysBack = b, !.end_daysBack = e], {}) :
              b \in {<<0>>, <<3>>, <<0 - 1>>}, e \in {Undefined, <<1>>}}
    \cup {FactoryConfig([Config("table", <<>>, <<>>) EXCEPT !.begin_daysBack = <<0 - 1>>], {})}
    \cup {FactoryConfig([Config("incremental", <<"id">>, <<>>) EXCEPT
                            !.assertions = Assertions(<<Check(ct, "", cols)>>, <<>>)], {}) :
              ct \in {"not_null", "unique_key"}, cols \in CheckColumns}
    \cup {FactoryConfig([Config("table", <<"id">>, <<>>) EXCEPT
                            !.assertions = Assertions(<<Check("not_null", "", StringOf("id"))>>,
                                                      <<>>)], {})}

InitFactory ==
    /\ factory = FactoryIdle
    /\ gen = GenIdle
    /\ clock = 0
    /\ RunIdle

(* A model file calls create(target, factoryConfig). *)
Create ==
    /\ factory.calls < MaxCalls
    /\ \E target \in Targets, cfg \in FactoryConfigs :
          factory' = create(factory, target, cfg, clock)
    /\ UNCHANGED <<gen, clock>>
    /\ UNCHANGED runVars

(* A model file calls the module-level dateFilter. *)
GlobalDateFilter ==
    /\ \E useVariable \in BOOLEAN :
          factory' = [factory EXCEPT !.filter =
                         [NoFilter EXCEPT !.given = TRUE, !.useVariable = useVariable,
                                          !.text = dateFilter(factory, useVariable)]]
    /\ UNCHANGED <<gen, clock>>
    /\ UNCHANGED runVars

(* A model file calls the dateFilter of a result returned earlier. *)
ResultDateFilter ==
    /\ \E r \in factory.results, useVariable \in BOOLEAN :
          factory' = [factory EXCEPT !.filter =
                         [given |-> TRUE, bound |-> TRUE, target |-> r.target, cfg |-> r.cfg,
                          useVariable |-> useVariable,
                          text |-> resultDateFilter(factory, r.target, useVariable)]]
    /\ UNCHANGED <<gen, clock>>
    /\ UNCHANGED runVars

NextFactory ==
    \/ Create
    \/ GlobalDateFilter
    \/ ResultDateFilter

SpecFactory == InitFactory /\ [][NextFactory]_vars_all

(* C10 as stated: create() throws exactly when the validator reports an    *)
(* error, and a create() that threw produced no SQL, registered no         *)
(* assertion and left the current-model context and the per-target         *)
(* contexts as they were.                                                  *)
C10_AsStated ==
    factory.calls > 0 =>
       LET l == factory.last
       IN /\ l.threw <=> Len(l.errors) > 0
          /\ l.threw =>
                /\ ~l.produced /\ l.model = NoModel
                /\ factory.registered = l.before.registered
                /\ factory.currentModelContext = l.before.currentModelContext
                /\ factory.modelContexts = l.before.modelContexts

----------------------------------------------------------------------------
(* One create() call on a configuration a model file may write *)

MaxClusterBy == 5
MaxChecks == 2

clusterColumns(n) == [i \in 1..n |-> "c" \o ToString(i)]

KeyShapes == {Absent, ArrayOf(<<>>), ArrayOf(<<"id">>), StringOf("id"), MixedOf(<<"id">>)}

ClusterShapes ==
    {Absent, StringOf("c1"), MixedOf(<<"c1">>)}
    \cup {ArrayOf(clusterColumns(n)) : n \in 1..MaxClusterBy}

DaysBackValues == {Undefined, <<0>>, <<3>>, <<0 - 1>>, <<1, 5>>, <<400>>}

RowCountChecks ==
    {RowCount(lo, hi) : lo \in {Undefined, <<0>>, <<100>>, <<0 - 1>>},
                        hi \in {Undefined, <<5>>}}

DataQualityChecks ==
    {Check("not_null", "", ArrayOf(<<"a", "b">>)), Check("not_null", "c", Absent),
     Check("not_null", "", ArrayOf(<<>>)), Check("not_null", "", Absent),
     Check("not_null", "c", ArrayOf(<<"a">>)), Check("not_null", "", StringOf("id")),
     Check("unique_key", "", ArrayOf(<<"id">>)), Check("", "c", Absent)}

RECURSIVE ListsUpTo(_, _)
(* the sequences over S of length 0..n *)
ListsUpTo(S, n) ==
    IF n = 0 THEN {<<>>}
    ELSE LET shorter == ListsUpTo(S, n - 1)
         IN shorter \cup {Append(l, x) : l \in {l \in shorter : Len(l) = n - 1}, x \in S}

(* Configurations of every type with well-formed and ill-formed keys,      *)
(* cluster columns and look-back days.                                     *)
ShapeConfigs ==
    {[FactoryConfig(Config(ty, <<>>, <<>>), {}) EXCEPT
         !.uniqueKeys = uk, !.clusterBy = cb, !.begin_daysBack = b, !.end_daysBack = e,
         !.assertions = a] :
        ty \in {"", "incremental", "table", "view", "custom"},
        uk \in KeyShapes, cb \in ClusterShapes, b \in DaysBackValues,
        e \in {Undefined, <<0>>, <<0 - 1>>},
        a \in {NoAssertions, Assertions(<<>>, <<RowCount(Undefined, Undefined)>>)}}

(* Configurations with options their type does not use. *)
RedundantConfigs ==
    {FactoryConfig([Config(ty, k, <<>>) EXCEPT
                       !.fullRefresh = fr, !.materialized = mv, !.autoRefresh = ar,
                       !.begin_daysBack = b, !.description = d], u) :
        ty \in {"incremental", "table", "view"}, k \in {<<>>, <<"id">>},
        fr \in BOOLEAN, mv \in BOOLEAN, ar \in BOOLEAN,
        b \in {Undefined, <<3>>, <<400>>}, d \in {"", "daily"}, u \in {{}, {"owner"}}}

(* Incremental configurations with an assertions block. *)
AssertionConfigs ==
    {FactoryConfig([Config("incremental", <<"id">>, e) EXCEPT
                       !.assertions = Assertions(dq, br)], {}) :
        e \in {<<>>, DayColumn},
        dq \in ListsUpTo(DataQualityChecks, MaxChecks),
        br \in ListsUpTo(RowCountChecks, 1)}

CreateConfigs == ShapeConfigs \cup RedundantConfigs \cup AssertionConfigs

InitCreate ==
    /\ gen \in {[GenIdle EXCEPT !.phase = "drawn", !.kind = "create", !.input = cfg] :
                   cfg \in CreateConfigs}
    /\ clock = 0
    /\ factory = FactoryIdle
    /\ RunIdle

(* ConfigValidator.validateFactoryConfig(factoryConfig, target) *)
ValidateDrawn ==
    /\ gen.kind = "create" /\ gen.phase = "drawn"
    /\ gen' = [gen EXCEPT !.phase = "validated",
                          !.output = validateFactoryConfig(gen.input)]
    /\ UNCHANGED <<clock, factory>>
    /\ UNCHANGED runVars

(* create(target, factoryConfig) in a freshly loaded module *)
CreateDrawn ==
    /\ gen.kind = "create" /\ gen.phase = "validated"
    /\ factory' = create(factory, Target, gen.input, clock)
    /\ gen' = [gen EXCEPT !.phase = "created"]
    /\ UNCHANGED clock
    /\ UNCHANGED runVars

(* The configuration without the options its type does not use and        *)
(* without the properties the library does not know.                       *)
withoutRedundancy(cfg) ==
    LET tableOrView == cfg.type \in {"table", "view"}
    IN [cfg EXCEPT
           !.unknown = {},
           !.uniqueKeys = IF tableOrView THEN Absent ELSE @,
           !.begin_daysBack = IF tableOrView THEN Undefined ELSE @,
           !.end_daysBack = IF tableOrView THEN Undefined ELSE @,
           !.autoRefresh = IF cfg.type = "view" /\ ~cfg.materialized THEN FALSE ELSE @]

(* create(target, factoryConfig) for the same configuration written        *)
(* without its redundant options, in a freshly loaded module               *)
CreateWithoutRedundancy ==
    /\ gen.kind = "create" /\ gen.phase = "created"
    /\ gen' = [gen EXCEPT !.phase = "done",
                  !.again = create(FactoryIdle, Target, withoutRedundancy(gen.input),
                                   clock).last]
    /\ UNCHANGED <<clock, factory>>
    /\ UNCHANGED runVars

NextCreate ==
    \/ ValidateDrawn
    \/ CreateDrawn
    \/ CreateWithoutRedundancy

SpecCreate == InitCreate /\ [][NextCreate]_vars_all

----------------------------------------------------------------------------
(* Claims about the validator and about one create() call *)

Validated == gen.kind = "create" /\ gen.phase \in {"validated", "created", "done"}
Created == gen.kind = "create" /\ gen.phase \in {"created", "done"}
Compared == gen.kind = "create" /\ gen.phase = "done"

Count(list, x) == Cardinality({i \in DOMAIN list : list[i] = x})

NotNonNegativeInteger(x) == x # Undefined /\ (Len(x) # 1 \/ x[1] < 0)

NoKeys(cfg) == cfg.uniqueKeys.k = "absent" \/ (cfg.uniqueKeys.k = "array" /\ cfg.uniqueKeys.v = <<>>)

UnboundedRowCounts(cfg) ==
    {i \in DOMAIN cfg.assertions.business_rules :
        /\ cfg.assertions.business_rules[i].type = "row_count"
        /\ cfg.assertions.business_rules[i].minRows = Undefined
        /\ cfg.assertions.business_rules[i].maxRows = Undefined}

(* C11: the validator lists every violation found: the errors list holds   *)
(* one entry for an incremental configuration without unique keys, one for *)
(* more than four clusterBy columns, one for a begin_daysBack that is not  *)
(* a non-negative integer and one for every row_count check with neither   *)
(* bound, whichever of them occur together; isValid is true exactly when   *)
(* the errors list is empty.                                               *)
C11_EveryViolationListed ==
    Validated =>
       LET cfg == gen.input
           v == gen.output
       IN /\ v.isValid <=> v.errors = <<>>
          /\ Count(v.errors, "clusterBy can have maximum 4 columns")
                = (IF cfg.clusterBy.k \in {"array", "mixed"}
                      /\ length(cfg.clusterBy) > ClusterByMax THEN 1 ELSE 0)
          /\ Count(v.errors, "row_count assertion requires at least minRows or maxRows")
                = Cardinality(UnboundedRowCounts(cfg))
          /\ Count(v.errors, "Incremental models require uniqueKeys")
                = (IF cfg.type = "incremental" /\ NoKeys(cfg) THEN 1 ELSE 0)
          /\ Count(v.errors, "begin_daysBack must be a non-negative integer")
                = (IF cfg.type = "incremental" /\ NotNonNegativeInteger(cfg.begin_daysBack)
                   THEN 1 ELSE 0)

(* An incremental configuration with empty uniqueKeys, five clusterBy      *)
(* columns, a negative begin_daysBack and a row_count check with neither   *)
(* bound: four errors.                                                     *)
C11_Witness ==
    /\ Validated
    /\ gen.input.type = "incremental" /\ gen.input.uniqueKeys = ArrayOf(<<>>)
    /\ gen.input.clusterBy = ArrayOf(clusterColumns(ClusterByMax + 1))
    /\ gen.input.begin_daysBack = <<0 - 1>> /\ gen.input.end_daysBack = Undefined
    /\ Cardinality(UnboundedRowCounts(gen.input)) = 1
    /\ Len(gen.output.errors) = 4
    /\ ~gen.output.isValid

Statements(model) == SeqToSet(model.preSQL) \cup SeqToSet(model.postSQL)

Reconcilers(model) == {st \in Statements(model) : st.op = "EXECUTE_schemaSQL_INTO"}

IllFormedKeys(cfg) == NoKeys(cfg) \/ cfg.uniqueKeys.k \in {"string", "mixed"}

clusterText(n) == "CLUSTER BY " \o JoinWith(clusterColumns(n), ", ")

ClusterErrors == {"clusterBy must be an array of column names",
                  "clusterBy can have maximum 4 columns",
                  "All clusterBy columns must be strings"}

Options(model) == UNION {SeqToSet(st.x) : st \in Statements(model)}

(* C14: for every type, a clusterBy array of more than four entries is     *)
(* rejected with the maximum 4 error and an array of at most four strings  *)
(* yields no clusterBy error; no statement create() generates carries a    *)
(* CLUSTER BY of more than four columns.                                   *)
C14_ClusterByAtMostFour ==
    /\ Validated =>
          LET cb == gen.input.clusterBy
          IN /\ (cb.k \in {"array", "mixed"} /\ length(cb) > ClusterByMax)
                   => Count(gen.output.errors, "clusterBy can have maximum 4 columns") = 1
             /\ (cb.k = "array" /\ Len(cb.v) <= ClusterByMax)
                   => \A i \in DOMAIN gen.output.errors :
                         gen.output.errors[i] \notin ClusterErrors
    /\ Created =>
          \A n \in (ClusterByMax + 1)..MaxClusterBy :
              clusterText(n) \notin Options(factory.last.model)

(* A table clustered by four columns is generated. *)
C14_Witness ==
    /\ Created /\ factory.last.produced
    /\ gen.input.type = "table"
    /\ gen.input.clusterBy = ArrayOf(clusterColumns(ClusterByMax))
    /\ clusterText(ClusterByMax) \in Options(factory.last.model)

(* C15 as stated: whatever the type, a begin_daysBack or end_daysBack that *)
(* is given and is not a non-negative integer makes the validator report   *)
(* an error, so create() produces nothing from such an offset.             *)
C15_AsStated ==
    /\ (Validated /\ (NotNonNegativeInteger(gen.input.begin_daysBack)
                      \/ NotNonNegativeInteger(gen.input.end_daysBack)))
          => gen.output.errors # <<>>
    /\ (Created /\ factory.last.produced)
          => /\ ~NotNonNegativeInteger(gen.input.begin_daysBack)
             /\ ~NotNonNegativeInteger(gen.input.end_daysBack)

----------------------------------------------------------------------------
(* The date filter of a result *)

ValidOffset(x) == x = Undefined \/ ~NotNonNegativeInteger(x)

OrDefault(x, d) == IF x = Undefined THEN <<d>> ELSE x

betweenText(b, e) ==
    "DATE(updated_at) BETWEEN DATE_SUB(CURRENT_DATE(), INTERVAL " \o numberText(b)
    \o " DAY) AND DATE_SUB(CURRENT_DATE(), INTERVAL " \o numberText(e) \o " DAY)"

(* C16 as stated: called right after the create() that returned it, the    *)
(* dateFilter of a result renders 1=1 for a full-refresh model and, for    *)
(* any other model with valid offsets, the inline BETWEEN expression with  *)
(* exactly the configured begin_daysBack and end_daysBack, 0 included, and *)
(* with 2 and 0 only where the option is absent.                           *)
C16_AsStated ==
    (/\ factory.calls = 1
     /\ factory.filter.given /\ factory.filter.bound /\ factory.filter.useVariable
     /\ ValidOffset(factory.filter.cfg.begin_daysBack)
     /\ ValidOffset(factory.filter.cfg.end_daysBack)) =>
       LET cfg == factory.filter.cfg
       IN factory.filter.text =
             IF cfg.fullRefresh THEN "1=1"
             ELSE betweenText(OrDefault(cfg.begin_daysBack, DefaultBeginDaysBack),
                              OrDefault(cfg.end_daysBack, DefaultEndDaysBack))

(* C17 as stated: whenever it is called, after any sequence of create()    *)
(* calls, the dateFilter of the result of create(t, cfg) renders the       *)
(* window and the full-refresh flag create() derived from cfg, whatever    *)
(* create() calls were made after it, for another target or for t.         *)
C17_AsStated ==
    (factory.filter.given /\ factory.filter.bound) =>
       LET cfg == factory.filter.cfg
       IN factory.filter.text =
             DateFilterGenerate("updated_at", factory.filter.useVariable, cfg.fullRefresh,
                                OrValue(cfg.begin_daysBack, DefaultBeginDaysBack),
                                OrValue(cfg.end_daysBack, DefaultEndDaysBack))

----------------------------------------------------------------------------
(* Pattern selection *)

OpsOf(stmts) == {stmts[i].op : i \in DOMAIN stmts}

IncrementalOps ==
    {"SET_target_exists", "IF_NOT_target_exists", "SET_create_sql",
     "EXECUTE_IMMEDIATE_create_sql", "EXECUTE_schemaSQL_INTO", "SET_merge_sql",
     "EXECUTE_merge_sql"}

DropThenCreate(stmts, target) ==
    \E i \in 1..(Len(stmts) - 1) :
        /\ stmts[i].op = "DROP_TABLE_IF_EXISTS" /\ stmts[i].a = FullName(target)
        /\ stmts[i + 1].op = "CREATE_TABLE" /\ stmts[i + 1].a = FullName(target)

CreatesView(model, isMaterialized) ==
    /\ \E i \in DOMAIN model.preSQL :
          model.preSQL[i].op = "CREATE_OR_REPLACE_" \o viewType(isMaterialized)
    /\ "CREATE_OR_REPLACE_" \o viewType(~isMaterialized) \notin OpsOf(model.preSQL)
    /\ OpsOf(model.preSQL \o model.postSQL)
          \cap (IncrementalOps \cup {"DROP_TABLE_IF_EXISTS", "CREATE_TABLE"}) = {}

----------------------------------------------------------------------------
(* The assertion views of a generated program *)

Views(model) ==
    SelectSeq(model.postSQL, LAMBDA st : st.op = "CREATE_OR_REPLACE_ASSERTION_VIEW")

ViewsNamed(model, name) == SelectSeq(Views(model), LAMBDA st : st.a = name)

Groups == {"data_quality", "business_rules"}

ChecksOf(cfg, group) ==
    IF group = "data_quality" THEN cfg.assertions.data_quality
    ELSE cfg.assertions.business_rules

Families(cfg, group) == {ChecksOf(cfg, group)[i].type : i \in DOMAIN ChecksOf(cfg, group)}

FamilyChecks(cfg, group, family) ==
    SelectSeq(ChecksOf(cfg, group), LAMBDA c : c.type = family)

ExpectedName(group, family) ==
    Target[2] \o "." \o Target[2] \o "_" \o Target[3] \o "_" \o group \o "_" \o family
    \o "_build"

ColumnCount(check) == IF check.columns = Absent THEN 1 ELSE Len(check.columns.v)

BoundCount(check) ==
    (IF check.minRows = Undefined THEN 0 ELSE 1) + (IF check.maxRows = Undefined THEN 0 ELSE 1)

RECURSIVE TotalColumns(_)
TotalColumns(checks) ==
    IF checks = <<>> THEN 0 ELSE ColumnCount(Head(checks)) + TotalColumns(Tail(checks))

RECURSIVE TotalBounds(_)
TotalBounds(checks) ==
    IF checks = <<>> THEN 0 ELSE BoundCount(Head(checks)) + TotalBounds(Tail(checks))

(* the number of sub-queries the checks of one family stand for *)
SubQueryCount(family, checks) ==
    IF family = "not_null" THEN TotalColumns(checks)
    ELSE IF family = "row_count" THEN TotalBounds(checks)
    ELSE Len(checks)

RECURSIVE ColumnsOver(_)
ColumnsOver(checks) ==
    IF checks = <<>> THEN <<>>
    ELSE (IF Head(checks).columns = Absent THEN <<Head(checks).column>>
          ELSE Head(checks).columns.v) \o ColumnsOver(Tail(checks))

WithViews ==
    /\ Created /\ factory.last.produced
    /\ gen.input.type = "incremental" /\ ~gen.input.fullRefresh
    /\ gen.input.assertions.present

C20_RowCount ==
    /\ (Validated /\ UnboundedRowCounts(gen.input) # {}) =>
          /\ ~gen.output.isValid
          /\ Count(gen.output.errors,
                   "row_count assertion requires at least minRows or maxRows")
                = Cardinality(UnboundedRowCounts(gen.input))
    /\ (WithViews /\ gen.input.assertions.business_rules # <<>>) =>
          LET check == gen.input.assertions.business_rules[1]
              views == ViewsNamed(factory.last.model,
                                  ExpectedName("business_rules", "row_count"))
          IN /\ Len(views) = 1
             /\ views[1].x =
                   (IF check.minRows = Undefined THEN <<>>
                    ELSE <<"row_count: min_rows_" \o ToString(check.minRows[1])
                           \o " HAVING COUNT < " \o ToString(check.minRows[1])>>)
                   \o (IF check.maxRows = Undefined THEN <<>>
                       ELSE <<"row_count: max_rows_" \o ToString(check.maxRows[1])
                              \o " HAVING COUNT > " \o ToString(check.maxRows[1])>>)

(* minRows 100 without maxRows: one sub-query, kept below 100 rows. *)
C20_Witness ==
    /\ WithViews
    /\ gen.input.assertions.business_rules = <<RowCount(<<100>>, Undefined)>>
    /\ ViewsNamed(factory.last.model, ExpectedName("business_rules", "row_count"))[1].x
          = <<"row_count: min_rows_100 HAVING COUNT < 100">>

----------------------------------------------------------------------------
(* The assertion views builder applied to drawn configurations *)

ValidChecks ==
    {Check("not_null", "", ArrayOf(<<"a", "b">>)), Check("not_null", "c", Absent),
     Check("unique_key", "", ArrayOf(<<"id">>))}

ValidRowCounts == {RowCount(<<100>>, Undefined), RowCount(Undefined, <<5>>),
                   RowCount(<<0>>, <<5>>)}

ViewInputs ==
    {[cfg |-> [Config(ty, <<"id">>, e) EXCEPT !.fullRefresh = fr,
                                               !.assertions = Assertions(dq, br)],
      fullRefresh |-> ctx] :
        ty \in {"incremental", "table", "view"},
        e \in {<<>>, DayColumn, DateCreatedAt},
        fr \in BOOLEAN, ctx \in BOOLEAN,
        dq \in ListsUpTo(ValidChecks, MaxChecks),
        br \in ListsUpTo(ValidRowCounts, 1)}

InitViews ==
    /\ gen \in {[GenIdle EXCEPT !.phase = "drawn", !.kind = "views", !.input = in] :
                   in \in ViewInputs}
    /\ clock = 0
    /\ factory = FactoryIdle
    /\ RunIdle

(* AssertionViewsBuilder.generateAssertionViews(target, config, result,    *)
(* context) called with the drawn configuration and context                *)
BuildAssertionViews ==
    /\ gen.kind = "views" /\ gen.phase = "drawn"
    /\ gen' = [gen EXCEPT !.phase = "built",
                  !.output = generateAssertionViews(Target, gen.input.cfg,
                                                    gen.input.fullRefresh)]
    /\ UNCHANGED <<clock, factory>>
    /\ UNCHANGED runVars

(* IncrementalPattern.generate(target, uniqueKeys, config) called with the *)
(* drawn configuration: the context it passes on is config.fullRefresh.    *)
GenerateWithViews ==
    /\ gen.kind = "views" /\ gen.phase = "built"
    /\ gen' = [gen EXCEPT !.phase = "done",
                  !.again = IncrementalGenerate(Target, gen.input.cfg.uniqueKeys,
                                                gen.input.cfg, clock)]
    /\ UNCHANGED <<clock, factory>>
    /\ UNCHANGED runVars

NextViews ==
    \/ BuildAssertionViews
    \/ GenerateWithViews

SpecViews == InitViews /\ [][NextViews]_vars_all

----------------------------------------------------------------------------
(* The partition predicate of the assertion views *)

(* the sub-queries of a view, each with the suffix the builder gave it *)
SubQueries(view) == [i \in DOMAIN view.x |-> [rule |-> view.x[i], suffix |-> view.y]]

AllViews(stmts) ==
    SelectSeq(stmts, LAMBDA st : st.op = "CREATE_OR_REPLACE_ASSERTION_VIEW")

PartitionScoped(cfg, fullRefresh) ==
    cfg.type = "incremental" /\ ~fullRefresh /\ cfg.partitionBy # <<>>

PredicateOf(cfg) == <<"AND " \o Str(cfg.partitionBy) \o " IN (partition_values)">>

EverySuffix(views, cfg, fullRefresh) ==
    \A i \in DOMAIN views : \A j \in DOMAIN SubQueries(views[i]) :
        SubQueries(views[i])[j].suffix =
           IF PartitionScoped(cfg, fullRefresh) THEN PredicateOf(cfg) ELSE <<>>

----------------------------------------------------------------------------
(* Execution of the emitted program with its assertion views *)

AssertedChecks == Assertions(<<Check("not_null", "id", Absent)>>,
                             <<RowCount(<<1>>, Undefined)>>)

AssertConfigs ==
    {[Config("incremental", <<"id">>, e) EXCEPT !.assertions = a] :
        e \in {<<>>, DayColumn}, a \in {NoAssertions, AssertedChecks}}

ViewNames(cfg) ==
    {v.a : v \in SeqToSet(generateAssertionViews(Target, cfg, cfg.fullRefresh))}

(* A view of the warehouse: its sub-queries, the partition predicate of    *)
(* each and the text put in the place of partition_values.                 *)
View(queries, filter, values) ==
    [exists |-> TRUE, cols |-> <<>>, rows |-> {},
     queries |-> queries, filter |-> filter, values |-> values]

InitAssert ==
    /\ config \in AssertConfigs
    /\ clock = 0
    /\ \E t \in InitialTargets :
          tables = [n \in {TargetName, StagingName(config, clock)} \cup ViewNames(config) |->
                       IF n = TargetName THEN t ELSE NoTable]
    /\ script = <<>>
    /\ pc = 0
    /\ vars = NoVars
    /\ declared = {}
    /\ executed = <<>>
    /\ probe = <<>>
    /\ before = NoTable
    /\ runs = 0
    /\ gen = GenIdle
    /\ factory = FactoryIdle
    /\ failure = NoFailure

(* EXECUTE IMMEDIATE CONCAT("CREATE OR REPLACE VIEW name AS ",             *)
(* REPLACE(query, "partition_values", partition_values)): the statement    *)
(* names the variable partition_values, so it fails when the variable is   *)
(* not declared; REPLACE and CONCAT return NULL when the variable is NULL,  *)
(* and EXECUTE IMMEDIATE of NULL fails.                                    *)
CreateAssertionView ==
    /\ At("CREATE_OR_REPLACE_ASSERTION_VIEW")
    /\ IF Assigned("partition_values") /\ ~IsNull(vars["partition_values"])
       THEN /\ tables' = [tables EXCEPT ![Cur.a] =
                             View(Cur.x, Cur.y, vars["partition_values"])]
            /\ Step("CREATE_OR_REPLACE_VIEW", Cur.a)
            /\ UNCHANGED <<vars, declared, probe>>
       ELSE Fail("CREATE_OR_REPLACE_VIEW")
    /\ UNCHANGED <<config, script, before, runs>>
    /\ Others

NextAssert ==
    \/ Next
    \/ CreateAssertionView

SpecAssert == InitAssert /\ [][NextAssert]_vars_all

----------------------------------------------------------------------------
(* Properties of a run with assertion views *)

LastEntry == executed[Len(executed)]
Finished1 == pc > 0 /\ Done
SourceOfPath == IF SnapshotRun THEN TargetName ELSE Staging

(* The run stopped because the MERGE statement, well formed, was rejected. *)
MergeRejected ==
    /\ pc = Failed
    /\ LastEntry = <<"ERROR", "MERGE">>
    /\ vars["merge_sql"].k = "sql"

(* Every view statement executed so far came after the assignment of      *)
(* partition_values from the table.                                        *)
AssignedBeforeViews(table) ==
    \A j \in DOMAIN executed :
        executed[j][1] \in {"CREATE_OR_REPLACE_VIEW", "ERROR"}
        /\ executed[j][2] \in {"CREATE_OR_REPLACE_VIEW"} \cup ViewNames(config)
        => \E i \in 1..(j - 1) : executed[i] = <<"SET_partition_values", table>>

(* C22: for a partitioned incremental load, both paths reach the end of    *)
(* the program with the partition values in partition_values, assigned     *)
(* from the target on the snapshot path and from the staging table on the  *)
(* incremental path, before the first view statement substitutes it.  As a *)
(* property of every state: a run stops early only when the MERGE is       *)
(* rejected for its rows, a finished run holds the values of the table of  *)
(* its path, and no view statement runs before the assignment.             *)
C22_AsStated ==
    Partitioned /\ pc # 0 /\ Len(probe) = 1 =>
        /\ pc = Failed => MergeRejected
        /\ Finished1 => PartitionValuesAre(SourceOfPath)
        /\ AssignedBeforeViews(SourceOfPath)

----------------------------------------------------------------------------
(* A run cut short and the run after it *)

QueryStored ==
    \E i \in DOMAIN executed : executed[i][1] \in {"CREATE TABLE", "CREATE OR REPLACE TABLE"}

(* The query result of the current run, once its CREATE has run: the new   *)
(* target on the snapshot path, the staging table on the incremental path. *)
RunQuery == IF SnapshotRun THEN tables[TargetName] ELSE tables[Staging]

InitRerun ==
    /\ config \in RunConfigs
    /\ clock = 0
    /\ \E t \in {t \in InitialTargets : t.cols \in {<<>>, BaseCatalog}} :
          tables = [n \in {TargetName, StagingName(config, clock)} |->
                       IF n = TargetName THEN t ELSE NoTable]
    /\ script = <<>>
    /\ pc = 0
    /\ vars = NoVars
    /\ declared = {}
    /\ executed = <<>>
    /\ probe = <<>>
    /\ before = NoTable
    /\ runs = 0
    /\ gen = GenIdle
    /\ factory = FactoryIdle
    /\ failure = NoFailure

(* The job is cancelled or the warehouse fails before the next statement:  *)
(* the script stops where it is and nothing is rolled back.                *)
Abort ==
    /\ Running
    /\ failure = NoFailure
    /\ failure' = [run |-> runs, target |-> before, created |-> QueryStored,
                   query |-> IF QueryStored THEN RunQuery ELSE NoTable]
    /\ pc' = Failed
    /\ executed' = Append(executed, <<"ERROR", "ABORT">>)
    /\ UNCHANGED <<config, tables, script, vars, declared, probe, before, runs>>
    /\ UNCHANGED <<gen, clock, factory>>

NextRerun ==
    \/ Next
    \/ Abort

SpecRerun == InitRerun /\ [][NextRerun]_vars_all

(* The run that follows the one cut short. *)
Rerun == failure.run > 0 /\ runs = failure.run + 1
SameQuery == QueryStored /\ (Rerun /\ failure.created => RunQuery = failure.query)
Original == IF Rerun THEN failure.target ELSE before

(* What the load is to leave in the target: the query result itself when   *)
(* there was no target; otherwise the target with the new columns of the   *)
(* query result appended, every row that has a row of the same key in the  *)
(* query result (among the partitions of the query result, for a           *)
(* partitioned load) taking its other columns from it, and every row of    *)
(* the query result without such a row added.                              *)
Upsert(target0, q, keys, partitioned) ==
    IF ~target0.exists THEN q
    ELSE LET tn == ColNames(target0.cols)
             qn == ColNames(q.cols)
             cols == target0.cols \o SelectSeq2(q.cols, qn \ tn, 1)
             days == {s["day"] : s \in q.rows}
             matches(t, s) == /\ \A i \in DOMAIN keys : t[keys[i]] = s[keys[i]]
                              /\ partitioned => t["day"] \in days
             matched(t) == \E s \in q.rows : matches(t, s)
             src(t) == CHOOSE s \in q.rows : matches(t, s)
             kept(t) == [c \in tn \cup qn |-> IF c \in tn THEN t[c] ELSE 0]
             updated(t) == [c \in tn \cup qn |->
                               IF c \in qn \ SeqToSet(keys) THEN src(t)[c]
                               ELSE IF c \in tn THEN t[c] ELSE 0]
             inserted(s) == [c \in tn \cup qn |-> IF c \in qn THEN s[c] ELSE 0]
         IN Table(cols,
                  {IF matched(t) THEN updated(t) ELSE kept(t) : t \in target0.rows}
                  \cup {inserted(s) : s \in {s \in q.rows :
                                               ~\E t \in target0.rows : matches(t, s)}})

(* The run would have completed had it been the first and not cut short:  *)
(* always on the snapshot path; on the incremental path at least when the  *)
(* query result has one row per key and, for a partitioned load, a row.    *)
FailureFreeCompletes ==
    \/ ~Original.exists
    \/ UniqueById(RunQuery.rows) /\ (Partitioned => RunQuery.rows # {})

(* C23: when a run of the emitted program is cut short after any prefix of *)
(* its statements, the next run, given the same query result, completes    *)
(* without error and leaves the target with the columns and rows that the  *)
(* run would have produced had it not been cut short.                      *)
C23_AsStated ==
    pc # 0 /\ Len(probe) = 1 /\ Rerun /\ SameQuery /\ FailureFreeCompletes =>
        /\ pc # Failed
        /\ Finished1 =>
              tables[TargetName] = Upsert(Original, RunQuery, config.uniqueKeys, Partitioned)

----------------------------------------------------------------------------
(* Staging names *)

(* The staging table a generated program creates, reads and merges from.   *)
StagingOf(model) ==
    LET i == CHOOSE i \in DOMAIN model.preSQL :
                 /\ model.preSQL[i].op = "SET_create_sql"
                 /\ model.preSQL[i].a = "CREATE OR REPLACE TABLE"
    IN model.preSQL[i].b

(* C24: two runs of one target, each generated from the configuration, do  *)
(* not use the same staging table when timestampInStagingName is true;     *)
(* when it is false the name is made of the target and the staging dataset *)
(* only.                                                                   *)
C24_AsStated ==
    Finished("generate") /\ IncrementalRouted(gen.input.cfg) =>
        IF gen.input.cfg.timestampInStagingName
        THEN StagingOf(gen.output) # StagingOf(gen.again)
        ELSE /\ StagingOf(gen.output) = "p.Staging.d_t"
             /\ StagingOf(gen.again) = "p.Staging.d_t"

----------------------------------------------------------------------------
(* Script variables *)

RuntimeVariables == {"target_exists", "create_sql", "update_set", "insert_cols",
                     "insert_vals", "join_condition", "merge_sql", "alter_statements",
                     "partition_values"}

ReconciledVariables == {"update_set", "insert_cols", "insert_vals", "join_condition"}

(* The variables a statement reads and those it assigns (SET x, INTO x). *)
Reads(st) ==
    CASE st.op = "IF_NOT_target_exists" -> {"target_exists"}
      [] st.op = "EXECUTE_IMMEDIATE_create_sql" -> {"create_sql"}
      [] st.op = "EXECUTE_alter_statements" -> {"alter_statements"}
      [] st.op = "SET_merge_sql" -> SeqToSet(st.x)
      [] st.op = "EXECUTE_merge_sql" -> {"merge_sql"}
      [] st.op = "CREATE_OR_REPLACE_ASSERTION_VIEW" -> {"partition_values"}
      [] OTHER -> {}

Assigns(st) ==
    CASE st.op = "SET_target_exists" -> {"target_exists"}
      [] st.op = "SET_create_sql" -> {"create_sql"}
      [] st.op = "SET_partition_values" -> {"partition_values"}
      [] st.op = "SET_alter_statements" -> {"alter_statements"}
      [] st.op = "EXECUTE_schemaSQL_INTO" -> ReconciledVariables
      [] st.op = "SET_merge_sql" -> {"merge_sql"}
      [] OTHER -> {}

(* The variables assigned so far in this run. *)
AssignedSoFar ==
    UNION {Assigns(Stmt(executed[i][1], "", "", <<>>, <<>>)) : i \in DOMAIN executed}
    \cup (IF IsNull(vars["create_sql"]) THEN {} ELSE {"create_sql"})

(* C25: in a run of the program emitted for an incremental configuration,  *)
(* partitioned or not, with or without assertions, every variable the next *)
(* statement reads or assigns has been declared by a DECLARE of this run,  *)
(* and every variable it reads has been assigned.                          *)
C25_AsStated ==
    Running =>
        /\ Reads(Cur) \cup Assigns(Cur) \subseteq RuntimeVariables \cap declared
        /\ Reads(Cur) \subseteq AssignedSoFar

----------------------------------------------------------------------------
(* Keys after the upsert *)

Merged == IncrementalRun /\ Ran("MERGE")

(* C26: when the target held at most one row per unique-key value as the   *)
(* run started and the query result of the run holds at most one row per   *)
(* unique-key value, the target holds at most one row per unique-key value *)
(* after the MERGE of the run, for partitioned and unpartitioned loads.    *)
C26_AsStated ==
    Merged /\ UniqueById(before.rows) /\ UniqueById(tables[Staging].rows) =>
        UniqueById(tables[TargetName].rows)

----------------------------------------------------------------------------
(* New columns *)

StagingColumns == NameSeq(tables[Staging].cols)
NewColumns == ColNames(tables[Staging].cols) \ ColNames(before.cols)

(* The row s of the staging table is in the target, column by column. *)
Carried(s) ==
    \E t \in tables[TargetName].rows : \A c \in SeqToSet(StagingColumns) : t[c] = s[c]

(* C27: on the incremental path the migration has run when the reconciler  *)
(* runs: from then on every staging column is a column of the target and   *)
(* insert_cols is the list of all staging columns, in order; after the     *)
(* MERGE of the run every staging row is in the target with the value of   *)
(* each of its columns, the columns added by this run included.            *)
C27_MigrationFirst ==
    IncrementalRun /\ Ran("EXECUTE_schemaSQL_INTO") =>
        /\ SeqToSet(StagingColumns) \subseteq ColNames(tables[TargetName].cols)
        /\ vars["insert_cols"] =
              Val("cols", [i \in DOMAIN StagingColumns |-> <<StagingColumns[i]>>])
        /\ Ran("MERGE") => \A s \in tables[Staging].rows : Carried(s)

(* A run that added two columns and merged a row with values in them. *)
C27_Witness ==
    /\ IncrementalRun /\ Finished1 /\ Ran("MERGE")
    /\ NewColumns = {"a", "b"}
    /\ Len(Entries("ALTER")) = 2
    /\ \E t \in tables[TargetName].rows : t["a"] = 1 /\ t["b"] = 1

----------------------------------------------------------------------------
(* Registered assertions and their views *)

(* The views the assertions registered for a configuration select from. *)
QueriedViews(target, cfg) ==
    {tableDataset(target) \o "." \o name \o "_build" : name \in generateAssertions(target, cfg)}

CreatedViews(model) == {Views(model)[i].a : i \in DOMAIN Views(model)}

(* Configurations of every load kind with well-formed checks. *)
KindConfigs ==
    {FactoryConfig([Config(ty, IF ty = "incremental" THEN <<"id">> ELSE <<>>, e) EXCEPT
                       !.fullRefresh = fr, !.assertions = Assertions(dq, br)], {}) :
        ty \in {"incremental", "table", "view"}, e \in {<<>>, DayColumn}, fr \in BOOLEAN,
        dq \in ListsUpTo(ValidChecks, 1), br \in ListsUpTo(ValidRowCounts, 1)}

InitKinds ==
    /\ gen \in {[GenIdle EXCEPT !.phase = "drawn", !.kind = "create", !.input = cfg] :
                   cfg \in KindConfigs}
    /\ clock = 0
    /\ factory = FactoryIdle
    /\ RunIdle

SpecKinds == InitKinds /\ [][NextCreate]_vars_all

(* C28: for a valid configuration with an assertions block, of any load    *)
(* kind, every assertion that create() registers selects from a view that  *)
(* a CREATE OR REPLACE VIEW statement of the postSQL returned by the same  *)
(* call creates.                                                           *)
C28_AsStated ==
    Created /\ factory.last.produced /\ gen.input.assertions.present =>
        QueriedViews(Target, gen.input) \subseteq CreatedViews(factory.last.model)

----------------------------------------------------------------------------
(* Staging names of two targets *)

(* Fully qualified targets; dataset and table names may hold underscores. *)
QualifiedTargets ==
    {<<project, dataset, table>> :
        project \in {"p", "q"}, dataset \in {"a", "a_b"}, table \in {"c", "b_c"}}

InitNames ==
    /\ gen \in {[GenIdle EXCEPT !.phase = "drawn", !.kind = "names",
                                !.input = [first |-> t1, second |-> t2]] :
                   t1 \in QualifiedTargets, t2 \in QualifiedTargets}
    /\ clock = 0
    /\ factory = FactoryIdle
    /\ RunIdle

(* SchemaManager.getStagingTableName(targetTable, 'Staging', false) for    *)
(* the first target, then for the second.                                  *)
NameFirst ==
    /\ gen.kind = "names" /\ gen.phase = "drawn"
    /\ gen' = [gen EXCEPT !.phase = "first",
                  !.output = FullName(getStagingTableName(gen.input.first, "Staging",
                                                          FALSE, clock))]
    /\ UNCHANGED <<clock, factory>>
    /\ UNCHANGED runVars

NameSecond ==
    /\ gen.kind = "names" /\ gen.phase = "first"
    /\ gen' = [gen EXCEPT !.phase = "done",
                  !.again = FullName(getStagingTableName(gen.input.second, "Staging",
                                                         FALSE, clock))]
    /\ UNCHANGED <<clock, factory>>
    /\ UNCHANGED runVars

NextNames ==
    \/ NameFirst
    \/ NameSecond

SpecNames == InitNames /\ [][NextNames]_vars_all

(* C29: with deterministic naming and one staging dataset, two different   *)
(* fully qualified targets never get the same staging table name.          *)
C29_AsStated ==
    Finished("names") /\ gen.input.first # gen.input.second => gen.output # gen.again

----------------------------------------------------------------------------
(* Loads whose unique key is every column of the query *)

KeyConfigs == {Config("incremental", <<"id", "day">>, <<>>),
               Config("incremental", <<"id", "day">>, DayColumn)}

InitKeys ==
    /\ config \in KeyConfigs
    /\ clock = 0
    /\ \E t \in InitialTargets :
          tables = [n \in {TargetName, StagingName(config, clock)} |->
                       IF n = TargetName THEN t ELSE NoTable]
    /\ script = <<>>
    /\ pc = 0
    /\ vars = NoVars
    /\ declared = {}
    /\ executed = <<>>
    /\ probe = <<>>
    /\ before = NoTable
    /\ runs = 0
    /\ gen = GenIdle
    /\ factory = FactoryIdle
    /\ failure = NoFailure

SpecKeys == InitKeys /\ [][Next]_vars_all

Substituted ==
    ReconciledVariables \cup (IF Partitioned THEN {"partition_values"} ELSE {})

(* C30: on the incremental path, when the staging table has a column and a *)
(* row, no value substituted into the merge template is NULL and the text  *)
(* assigned to merge_sql is a well-formed MERGE, also when every staging   *)
(* column is a unique key.                                                 *)
C30_AsStated ==
    /\ IncrementalRun /\ Ran("SET_merge_sql")
    /\ tables[Staging].cols # <<>> /\ tables[Staging].rows # {}
    => /\ \A v \in Substituted : ~IsNull(vars[v])
       /\ vars["merge_sql"].k = "sql"
       /\ pc # Failed => MergeWellFormed(ParseMerge(vars["merge_sql"].v), tables)

====
